---- MODULE Spec2Model ----
(***************************************************************************)
(* Model of the SEO audit service.                                         *)
(*                                                                         *)
(*  - the audit route handler POST of src/app/api/audit/route.ts: request  *)
(*    validation, page fetch, the analysis functions, the merge of their   *)
(*    issue lists, the overall score and the severity buckets;             *)
(*  - the sliding-window rate limiter of src/unnamed/part_001.             *)
(*                                                                         *)
(* The HTML parser (cheerio) is not modelled: a page is the record of the  *)
(* values the analysis functions read out of the parsed document (counts,  *)
(* attribute values, the sequence of heading levels, ...).  Issue strings  *)
(* are records [text, arg]: the literal part of the message and the part   *)
(* interpolated into it.                                                   *)
(***************************************************************************)
EXTENDS Integers, Sequences, FiniteSets, TLC

VARIABLES
    \* ---- audit handler (route.ts POST) ----
    request,        \* the request body handed to POST
    site,           \* what the network answers for the url: the page and the
                    \*   robots.txt / sitemap.xml / link probes (the page snapshot)
    pc,             \* position of the handler
    url,            \* handler local `url`
    html,           \* handler local `html` (response.data)
    ran,            \* analysis functions that have returned
    out,            \* issues returned by each analysis function
    allIssues,      \* handler local `allIssues`
    overallScore,   \* handler local `overallScore`, in units of 1/ScoreUnit
    issues,         \* handler locals criticalIssues / majorIssues / minorIssues
    response,       \* the NextResponse returned by the current invocation
    run,            \* number of the current invocation of POST
    firstResponse,  \* the response of the previous invocation
    \* ---- rate limiter (part_001 rateLimit) ----
    now,            \* Date.now()
    tokenCache,     \* Map token -> timestamps
    activeTokens,   \* array of tokens
    lastCheck,      \* outcome of the latest call of check
    admitted,       \* history: timestamps of the calls of check that resolved, per token
    \* ---- results page (loading.tsx ResultsContent) ----
    version,        \* which ResultsContent is mounted: "post" (68-139) or "get" (845-954)
    searchUrl,      \* searchParams.get("url"), "" when there is none
    effectUrl,      \* the url of the last run of the effect, "unset" before the first
    results,        \* state `results` (`result`): {} for null, else {data}
    loading,        \* state `loading`
    error,          \* state `error`: {} for null, else {[message, url]}, url being
                    \*   the `url` of the effect that set it
    toast,          \* title of the latest toast
    fetches,        \* the calls of fetchResults, in the order they were started
    navigations     \* number of changes of the query string so far

auditVars == <<request, site, pc, url, html, ran, out, allIssues, overallScore,
               issues, response, run, firstResponse>>
limiterVars == <<now, tokenCache, activeTokens, lastCheck, admitted>>
pageVars == <<version, searchUrl, effectUrl, results, loading, error, toast, fetches,
              navigations>>
vars == <<auditVars, limiterVars, pageVars>>

----------------------------------------------------------------------------
(* Helpers *)

Min(a, b) == IF a < b THEN a ELSE b
Max(a, b) == IF a > b THEN a ELSE b

RECURSIVE Flatten(_)
Flatten(ss) == IF ss = <<>> THEN <<>> ELSE Head(ss) \o Flatten(Tail(ss))

Range(s) == {s[i] : i \in 1..Len(s)}

\* One issue string: `text` is the literal part, `arg` the interpolated part.
Issue(text, arg) == [text |-> text, arg |-> arg]

\* issues.push(text) under `if (cond)`.
When(cond, text, arg) == IF cond THEN <<Issue(text, arg)>> ELSE <<>>

----------------------------------------------------------------------------
(* The analysis functions.  `h` is the parsed page, `u` the url. *)

\* route.ts 92-113: the loop breaks at the first heading that skips a level.
RECURSIVE HierarchyFrom(_, _, _)
HierarchyFrom(levels, i, lastHeadingLevel) ==
    IF i > Len(levels) THEN TRUE
    ELSE IF levels[i] > lastHeadingLevel + 1 /\ i > 1 THEN FALSE
    ELSE HierarchyFrom(levels, i + 1, levels[i])

\* Faulty variant: the first heading is compared with level 0 like the others.
RECURSIVE HierarchyFromTop(_, _, _)
HierarchyFromTop(levels, i, lastHeadingLevel) ==
    IF i > Len(levels) THEN TRUE
    ELSE IF levels[i] > lastHeadingLevel + 1 THEN FALSE
    ELSE HierarchyFromTop(levels, i + 1, levels[i])

checkHeadingHierarchyFromTop(levels) == HierarchyFromTop(levels, 1, 0)

checkHeadingHierarchy(levels) == HierarchyFrom(levels, 1, 0)

analyzeHeadingStructure(h) ==
    LET IsH1(l) == l = 1
        h1 == Len(SelectSeq(h.headings.levels, IsH1))
        nestedStructure == checkHeadingHierarchy(h.headings.levels)
    IN  (IF h1 = 0 THEN <<Issue("No H1 heading found", "")>>
         ELSE IF h1 > 1 THEN <<Issue("Multiple H1 headings found", "")>>
         ELSE <<>>)
        \o When(~nestedStructure, "Heading structure is not properly nested", "")

analyzeContent(h) ==
    LET c == h.content
        wordCount == c.wordCount
        paragraphs == c.paragraphs
        images == Len(h.images)
        hasVisualElements == images > 0 \/ c.tables > 0
        \* contentToCodeRatio = bodyText.length / html.length < 0.1
        lowRatio == c.htmlLength > 0 /\ 10 * c.bodyLength < c.htmlLength
    IN  When(wordCount < 300, "Content is too short (less than 300 words)", "")
        \o When(paragraphs < 3 /\ wordCount > 300,
                "Content has too few paragraphs for its length", "")
        \o When(lowRatio, "Text to HTML ratio is low (less than 10%)", "")
        \o When(~hasVisualElements /\ wordCount > 500,
                "Long content lacks visual elements (images or tables)", "")

DynamicParams == {"sort", "view", "display", "layout", "page", "filter"}

analyzeUrl(u) ==
    LET IsDynamic(p) == p \in DynamicParams
        potentialDynamicParams == SelectSeq(u.queryParams, IsDynamic)
        isSecure == u.protocol = "https:"
    IN  When(u.pathLength > 100, "URL path is too long (over 100 characters)", "")
        \o When(u.totalUrlLength > 150,
                "Total URL length is too long (over 150 characters)", "")
        \o When(Len(u.queryParams) > 0,
                "URL contains query parameters which may affect SEO", "")
        \o When(Len(potentialDynamicParams) > 0,
                "URL contains parameters that might cause duplicate content: ",
                potentialDynamicParams[1])
        \o When(u.containsStopWords, "URL contains stop words which are unnecessary", "")
        \o When(~u.isCleanFormat,
                "URL contains special characters or double underscores", "")
        \o When(~isSecure, "URL uses HTTP instead of HTTPS", "")

\* route.ts 280-293: hasAlt is the truthiness of the alt attribute, so an
\* alt attribute that is present but empty counts as no alt.
ImgHasAlt(img) == img.altAttr /\ img.alt # ""
ImgHasWidthHeight(img) == img.width /\ img.height
ImgIsInlineBase64(img) == img.src = "data:"

analyzeImages(h) ==
    LET NoAlt(img) == ~ImgHasAlt(img)
        NoDims(img) == ~ImgHasWidthHeight(img)
        NonWebp(img) == ~ImgIsInlineBase64(img)
                        /\ img.fileExtension \in {"jpg", "jpeg", "png", "gif"}
        NonLazy(img) == ~img.isLazyLoaded /\ ~ImgIsInlineBase64(img)
        NonResponsive(img) == ~img.hasResponsiveConfig /\ ~ImgIsInlineBase64(img)
        n1 == Len(SelectSeq(h.images, NoAlt))
        n2 == Len(SelectSeq(h.images, NoDims))
        n3 == Len(SelectSeq(h.images, NonWebp))
        n4 == Len(SelectSeq(h.images, NonLazy))
        n5 == Len(SelectSeq(h.images, NonResponsive))
    IN  When(n1 > 0, " images missing alt text", ToString(n1))
        \o When(n2 > 0, " images missing width/height attributes", ToString(n2))
        \o When(n3 > 3, " images are not using WebP format", ToString(n3))
        \o When(n4 > 3, " images are not lazy loaded", ToString(n4))
        \o When(n5 > 3,
                " images don't have responsive image configuration (srcset/sizes)",
                ToString(n5))

analyzeSocialTags(h) ==
    LET openGraph == h.social.openGraph
        twitter == h.social.twitter
    IN  (IF openGraph.title = "" /\ openGraph.description = ""
         THEN <<Issue("Missing Open Graph tags", "")>>
         ELSE When(openGraph.title = "", "Missing Open Graph title", "")
              \o When(openGraph.description = "", "Missing Open Graph description", "")
              \o When(openGraph.image = "", "Missing Open Graph image", ""))
        \o
        (IF twitter.card = "" /\ twitter.title = ""
         THEN <<Issue("Missing Twitter Card tags", "")>>
         ELSE When(twitter.card = "", "Missing Twitter card type", "")
              \o When(twitter.title = "" /\ openGraph.title = "",
                      "Missing Twitter title", "")
              \o When(twitter.image = "" /\ openGraph.image = "",
                      "Missing Twitter image", ""))

\* t.includes(name) over the schema type names the pages use.
TypeIncludes(t, name) == t = name \/ (t = "NewsArticle" /\ name = "Article")

analyzeSchemaMarkup(h) ==
    LET types == h.schema.schemaTypes
        Some(names) == \E i \in 1..Len(types) : \E n \in names : TypeIncludes(types[i], n)
        hasWebpageSchema == Some({"WebPage", "Article", "NewsArticle"})
        hasOrganizationSchema == Some({"Organization", "LocalBusiness"})
        hasBreadcrumbSchema == Some({"BreadcrumbList"})
    IN  IF h.schema.schemas = 0
        THEN <<Issue("No schema markup detected", "")>>
        ELSE When(~hasWebpageSchema,
                  "No WebPage, Article, or NewsArticle schema detected", "")
             \o When(~hasOrganizationSchema,
                     "No Organization or LocalBusiness schema detected", "")
             \o When(~hasBreadcrumbSchema, "No BreadcrumbList schema detected", "")

analyzeInternalLinks(h) ==
    LET l == h.internalLinks
    IN  When(l.total = 0, "No internal links found", "")
        \o When(l.generic > 0, " internal links use generic anchor text",
                ToString(l.generic))
        \o When(l.noText > 0, " internal links have no anchor text", ToString(l.noText))
        \o When(l.nofollow > 3, " internal links have nofollow attribute",
                ToString(l.nofollow))
        \o When(l.duplicatePaths > 3, " duplicate internal links to the same URL",
                ToString(l.duplicatePaths))
        \* linkDistribution.content < internalLinks.length * 0.3
        \o When(l.total > 0 /\ 10 * l.inMainContent < 3 * l.total,
                "Low percentage of internal links in main content area", "")

analyzeExternalLinks(h) ==
    LET l == h.externalLinks
        withoutNofollow == l.total - l.nofollow
    IN  When(withoutNofollow > 0, " external links without nofollow",
             ToString(withoutNofollow))
        \o When(l.blankWithoutSafeRel > 0,
                " external links missing noopener/noreferrer with target=_blank",
                ToString(l.blankWithoutSafeRel))
        \o When(l.toxicWithoutNofollow > 0,
                " links to potentially toxic domains without nofollow",
                ToString(l.toxicWithoutNofollow))

analyzeMobileFriendliness(h) ==
    LET m == h.mobile
    IN  When(~m.hasMobileViewport, "No mobile viewport meta tag", "")
        \o When(m.preventsZoom,
                "Viewport tag prevents zooming, which hurts accessibility", "")
        \o When(m.fixedWidthElements > 5,
                " elements have fixed width that may overflow on mobile screens",
                ToString(m.fixedWidthElements))
        \o When(m.smallFontElements > 5,
                " elements have font sizes that may be too small on mobile devices",
                ToString(m.smallFontElements))
        \o When(m.smallTouchElements > 0,
                " touch elements may be too small for mobile users",
                ToString(m.smallTouchElements))
        \o When(~m.hasMediaQueries, "No media queries detected for responsive design", "")

\* route.ts 793-813: hasMixedContent is the constant false.
analyzeHttps(u) ==
    LET isHttps == u.protocol = "https:"
        hasMixedContent == FALSE
    IN  When(~isHttps, "Website is not using HTTPS", "")
        \o When(hasMixedContent,
                "Page has mixed content (HTTP resources on HTTPS page)", "")

analyzePerformance(h) ==
    LET p == h.performance
        HasLazyAttr(img) == img.lazyAttr
        images == Len(h.images)
        lazyLoadedImgs == Len(SelectSeq(h.images, HasLazyAttr))
        \* lazyLoadingRatio = images > 0 ? lazyLoadedImgs / images : 0, tested < 0.5
        lowLazyRatio == IF images > 0 THEN 2 * lazyLoadedImgs < images ELSE TRUE
        htmlSize == h.content.htmlLength
    IN  When(p.scripts > 15, "High number of script tags", ToString(p.scripts))
        \o When(p.styles + p.inlineStyles > 10, "High number of stylesheets",
                ToString(p.styles + p.inlineStyles))
        \o When(htmlSize > 100000, "Large HTML size", ToString(htmlSize))
        \o When(p.renderBlockingStyles > 2, " render-blocking stylesheets",
                ToString(p.renderBlockingStyles))
        \o When(p.renderBlockingScripts > 2, " render-blocking scripts",
                ToString(p.renderBlockingScripts))
        \o When(images > 5 /\ lowLazyRatio, "Less than 50% of images use lazy loading", "")
        \o When(~p.hasPreconnect /\ ~p.hasDNSPrefetch /\ p.externalScripts > 3,
                "No preconnect or dns-prefetch resource hints used", "")
        \o When(p.hasJQuery, "jQuery detected, which may impact performance", "")
        \o When(p.hasGoogleFonts /\ ~p.hasPreconnect,
                "Google Fonts used without preconnect", "")

\* bodyText.split(/\s+/).length: an empty text still splits into one piece.
SplitLength(h) == IF h.content.wordCount = 0 THEN 1 ELSE h.content.wordCount

\* The sort key of route.ts 990-997, times wordCount so that it stays an integer.
KeywordScore(k, wordCount) ==
    ((IF k.inTitle THEN 3 ELSE 0) + (IF k.inH1 THEN 2 ELSE 0) + (IF k.inUrl THEN 2 ELSE 0))
        * wordCount + k.occurrences * 100

\* sortedKeywords[0]: Array.prototype.sort is stable, so the first keyword among
\* those of the highest score.
TopKeyword(ks, wordCount) ==
    LET best == CHOOSE i \in 1..Len(ks) :
                    /\ \A j \in 1..Len(ks) :
                           KeywordScore(ks[j], wordCount) <= KeywordScore(ks[i], wordCount)
                    /\ \A j \in 1..(i - 1) :
                           KeywordScore(ks[j], wordCount) < KeywordScore(ks[i], wordCount)
    IN  ks[best]

\* sortedKeywords: the keywords by descending score, those of equal score in
\* their order of extraction, cut to the first ten.
sortedKeywords(h) ==
    LET ks == h.keywords
        wordCount == SplitLength(h)
        Before(j, i) ==
            \/ KeywordScore(ks[j], wordCount) > KeywordScore(ks[i], wordCount)
            \/ /\ KeywordScore(ks[j], wordCount) = KeywordScore(ks[i], wordCount)
               /\ j < i
        Rank(i) == Cardinality({j \in 1..Len(ks) : Before(j, i)}) + 1
        sorted == [r \in 1..Len(ks) |-> ks[CHOOSE i \in 1..Len(ks) : Rank(i) = r]]
    IN  SubSeq(sorted, 1, Min(Len(ks), 10))

\* density of a keyword, as the fraction num / den.
KeywordDensity(k, h) ==
    [ num |-> IF h.content.bodyLength > 0 THEN k.occurrences ELSE 0,
      den |-> SplitLength(h) ]

analyzeKeywords(h) ==
    LET ks == h.keywords
        hasBody == h.content.bodyLength > 0
        \* density = occurrences / bodyText.split(/\s+/).length, tested > 0.05
        Overused(k) == hasBody /\ 20 * k.occurrences > SplitLength(h)
        PerKeyword(k) ==
            When(Overused(k), "Keyword may be overused: ", k.keyword)
            \o When(k.occurrences > 0 /\ ~k.inTitle /\ ~k.inH1,
                    "Keyword not found in title or H1: ", k.keyword)
            \o When(k.occurrences > 5 /\ ~k.inMetaDescription,
                    "Keyword not found in meta description: ", k.keyword)
        hasConsistentKeywords ==
            /\ Len(ks) > 0
            /\ LET top == TopKeyword(ks, SplitLength(h))
               IN  top.inTitle /\ top.inH1 /\ top.inMetaDescription
    IN  Flatten([i \in 1..Len(ks) |-> PerKeyword(ks[i])])
        \o When(~hasConsistentKeywords /\ Len(ks) > 0,
                "Primary keyword not consistently used across title, H1, and meta description",
                "")

\* canonicalUrl.startsWith("/") over the canonical values the pages use.
IsRelativeUrl(s) == s = "/page"

analyzeCanonical(h, u) ==
    LET c == h.canonical
        hasCanonical == c.canonicalUrl # ""
        isCanonicalSelf == c.canonicalUrl = u.href
    IN  (IF ~hasCanonical THEN <<Issue("No canonical URL specified", "")>>
         ELSE When(~isCanonicalSelf, "Canonical URL points to a different page", ""))
        \o When(IsRelativeUrl(c.canonicalUrl),
                "Canonical URL is relative, should be absolute", "")
        \o When(c.count > 1, "Multiple canonical tags found", "")
        \o When((c.hasPrevLink \/ c.hasNextLink) /\ ~hasCanonical,
                "Pagination links present but no canonical tag", "")

\* tag.hreflang.startsWith(pageLanguage) over the language codes the pages use.
LangStartsWith(tagLang, pageLang) ==
    tagLang = pageLang \/ (tagLang = "en-US" /\ pageLang = "en")

analyzeHreflang(h) ==
    LET tags == h.hreflang
        pageLang == h.language.htmlLang
        hasXDefault == \E i \in 1..Len(tags) : tags[i].hreflang = "x-default"
        hasSelfReference == \E i \in 1..Len(tags) : tags[i].hreflang = pageLang
        isLanguageConsistent ==
            pageLang # "" /\ \E i \in 1..Len(tags) : LangStartsWith(tags[i].hreflang, pageLang)
        IsRelative(t) == t.hrefRelative
    IN  IF Len(tags) > 0
        THEN When(~hasXDefault, "Missing x-default hreflang tag", "")
             \o When(~hasSelfReference /\ pageLang # "",
                     "Missing self-referencing hreflang tag", "")
             \o When(~isLanguageConsistent /\ pageLang # "",
                     "HTML lang attribute doesn't match any hreflang tags", "")
             \o When(Len(SelectSeq(tags, IsRelative)) > 0, "Hreflang tags should use absolute URLs", "")
        ELSE <<>>

\* route.ts 1165-1249.  axios.get rejects for a status outside 2xx and the catch
\* turns every failure into one issue.
analyzeRobotsTxt(u, net) ==
    LET r == net.robotsTxt
        hasRobotsTxt == r.status = 200
    IN  IF u.hostname = "" THEN <<Issue("Could not parse hostname from URL", "")>>
        ELSE IF r.failed THEN <<Issue("Failed to fetch robots.txt", "")>>
        ELSE IF ~hasRobotsTxt THEN <<Issue("No robots.txt file found", "")>>
        ELSE When(r.hasDisallow, "robots.txt contains disallow rules", "")
             \o When(~r.hasSitemapDirective, "No sitemap directive in robots.txt", "")
             \o When(r.userAgentSections = 0,
                     "robots.txt has no valid user-agent sections", "")

analyzeSitemap(u, net) ==
    LET s == net.sitemap
        hasSitemap == s.status = 200
    IN  IF u.hostname = "" THEN <<Issue("Could not parse hostname from URL", "")>>
        ELSE IF s.failed THEN <<Issue("Failed to fetch sitemap.xml", "")>>
        ELSE IF ~hasSitemap THEN <<Issue("No sitemap.xml file found", "")>>
        ELSE When(~s.isValidXml, "sitemap.xml does not appear to be valid XML", "")
             \o When(s.urlCount = 0 /\ ~s.isSitemapIndex, "Sitemap contains no URL entries", "")
             \o When(~s.hasLastmod /\ ~s.isSitemapIndex,
                     "Sitemap URLs don't have lastmod dates", "")

\* route.ts 1359-1363, times 1000 * sentences * words so that it stays an integer:
\* readabilityScore = 206.835 - 1.015 * (words / sentences) - 84.6 * (syllables / words).
ReadabilityBelow60(r) ==
    IF r.sentences > 0 /\ r.words > 0
    THEN 206835 * r.sentences * r.words - 1015 * r.words * r.words
             - 84600 * r.syllables * r.sentences
         < 60000 * r.sentences * r.words
    ELSE TRUE

calculateReadability(h) ==
    LET r == h.readability
    IN  When(ReadabilityBelow60(r), "Content may be difficult to read", "")
        \* averageSentenceLength = sentences > 0 ? words / sentences : 0
        \o When(r.sentences > 0 /\ r.words > 25 * r.sentences,
                "Average sentence length is too long", "")
        \* complexWordPercentage = words > 0 ? complexWordCount / words * 100 : 0
        \o When(r.words > 0 /\ 100 * r.complexWordCount > 15 * r.words,
                "Too many complex words", "")
        \o When(r.passiveVoiceCount > 5 /\ r.sentences > 0
                    /\ 5 * r.passiveVoiceCount > r.sentences,
                "High usage of passive voice detected", ToString(r.passiveVoiceCount))

\* Faulty variant: every link of the page is requested.
LinksToCheckAll(h) ==
    LET Kept(a) == a.kind # "skipped"
    IN  SelectSeq(h.anchors, Kept)

\* route.ts 1438-1469: anchors, javascript:, mailto: and tel: links are skipped and
\* only the first 10 of the rest are probed.
LinksToCheck(h) ==
    LET Kept(a) == a.kind # "skipped"
        links == SelectSeq(h.anchors, Kept)
    IN  SubSeq(links, 1, Min(Len(links), 10))

\* Faulty variant: a HEAD request that fails is swallowed by the catch.
IsBrokenByStatus(net, link) ==
    LET probe == net.probe[link.href]
    IN  ~probe.failed /\ probe.status >= 400

\* route.ts 1471-1493: a link is broken when its HEAD request answers 400 or more,
\* or fails (timeout, abort, connection error).
IsBroken(net, link) ==
    LET probe == net.probe[link.href]
    IN  probe.failed \/ probe.status >= 400

BrokenLinks(h, net) ==
    LET Broken(link) == IsBroken(net, link)
    IN  SelectSeq(LinksToCheck(h), Broken)

checkBrokenLinks(h, u, net) ==
    IF u.hostname = "" THEN <<Issue("Could not parse hostname from URL", "")>>
    ELSE LET brokenLinks == BrokenLinks(h, net)
         IN  When(Len(brokenLinks) > 0, " broken links found", ToString(Len(brokenLinks)))

detectLanguage(h) ==
    LET htmlLang == h.language.htmlLang
        metaLang == h.language.metaLang
    IN  When(htmlLang = "", "HTML tag is missing lang attribute", "")
        \o When(htmlLang # "" /\ metaLang # "" /\ htmlLang # metaLang,
                "Inconsistent language declarations: HTML lang and meta content-language differ",
                "")

\* route.ts 1642-1678: the `errors` of validateStructuredData, which POST merges
\* as this check's issues.
validateStructuredData(h) ==
    LET sd == h.structuredData
        PerItemscope(el) ==
            When(el.itemtype = "", "Element has itemscope but no itemtype", "")
            \o When(el.itemtype = "Product" /\ ~el.hasNameOrPrice,
                    "Product schema missing required properties (name, price)", "")
            \o When(el.itemtype = "Article" /\ ~el.hasHeadline,
                    "Article schema missing required headline property", "")
    IN  [i \in 1..sd.invalidJsonLd |-> Issue("Invalid JSON-LD: ", "Unexpected token")]
        \o Flatten([i \in 1..Len(sd.itemscopes) |-> PerItemscope(sd.itemscopes[i])])

detectAmp(h) ==
    When(~h.amp.isAmp /\ ~h.amp.hasAmpLink, "No AMP version of this page is available", "")
    \o When(h.amp.isAmp /\ h.amp.ampComponents = 0,
            "Page declares as AMP but has no AMP components", "")

checkFavicon(h) ==
    LET f == h.favicon
    IN  When(f.links = 0, "No favicon found", "")
        \o When(~f.hasDefaultFavicon, "No standard favicon.ico found", "")
        \o When(~f.hasAppleTouchIcon, "No Apple Touch Icon found for iOS devices", "")
        \o When(~f.hasDifferentSizes /\ f.links > 0,
                "No different favicon sizes for different devices", "")

----------------------------------------------------------------------------
(* The catalog *)

\* The analysis functions in the order POST calls them (route.ts 1768-1805); the
\* last three are awaited one after the other.
InvocationOrder ==
    << "metaTags", "headings", "content", "url", "images", "social", "schema",
       "internalLinks", "externalLinks", "mobile", "https", "performance", "keywords",
       "canonical", "hreflang", "readability", "language", "amp", "favicon",
       "structuredData", "duplicateContent", "privacy",
       "robotsTxt", "sitemap", "brokenLinks" >>

Checks == Range(InvocationOrder)

AsyncChecks == {"robotsTxt", "sitemap", "brokenLinks"}

\* The order of the spreads in the array literal of route.ts 1808-1829.
MergeOrder ==
    << "headings", "content", "url", "images", "social", "schema", "internalLinks",
       "externalLinks", "mobile", "https", "performance", "keywords", "canonical",
       "hreflang", "robotsTxt", "sitemap", "readability", "brokenLinks", "language",
       "structuredData" >>

\* The issues an analysis function returns for page h, url u and network net.
\* extractMetaTags, detectDuplicateContent and checkPrivacyCompliance return no
\* issue list.
IssuesOf(c, h, u, net) ==
    CASE c = "headings"       -> analyzeHeadingStructure(h)
      [] c = "content"        -> analyzeContent(h)
      [] c = "url"            -> analyzeUrl(u)
      [] c = "images"         -> analyzeImages(h)
      [] c = "social"         -> analyzeSocialTags(h)
      [] c = "schema"         -> analyzeSchemaMarkup(h)
      [] c = "internalLinks"  -> analyzeInternalLinks(h)
      [] c = "externalLinks"  -> analyzeExternalLinks(h)
      [] c = "mobile"         -> analyzeMobileFriendliness(h)
      [] c = "https"          -> analyzeHttps(u)
      [] c = "performance"    -> analyzePerformance(h)
      [] c = "keywords"       -> analyzeKeywords(h)
      [] c = "canonical"      -> analyzeCanonical(h, u)
      [] c = "hreflang"       -> analyzeHreflang(h)
      [] c = "robotsTxt"      -> analyzeRobotsTxt(u, net)
      [] c = "sitemap"        -> analyzeSitemap(u, net)
      [] c = "readability"    -> calculateReadability(h)
      [] c = "brokenLinks"    -> checkBrokenLinks(h, u, net)
      [] c = "language"       -> detectLanguage(h)
      [] c = "structuredData" -> validateStructuredData(h)
      [] c = "amp"            -> detectAmp(h)
      [] c = "favicon"        -> checkFavicon(h)
      [] OTHER                -> <<>>

\* The places where an analysis function throws: new RegExp over a keyword with
\* regular-expression syntax in it (route.ts 964) and new URL over a src or href
\* that is no URL (route.ts 264, 496).  robots.txt and sitemap.xml failures are
\* caught inside their functions, link probe failures inside the probe loop.
Throws(c, h) ==
    CASE c = "keywords"      -> \E i \in 1..Len(h.keywords) : ~h.keywords[i].regexSafe
      [] c = "images"        -> \E i \in 1..Len(h.images) : h.images[i].src = "malformed"
      [] c = "internalLinks" -> \E i \in 1..Len(h.anchors) : h.anchors[i].kind = "malformed"
      [] OTHER               -> FALSE

----------------------------------------------------------------------------
(* Inputs: the requests and the pages the handler is run on.                *)
(* GoodSite is a page on which no analysis function finds anything, BadSite *)
(* one on which every function finds as much as it can; Alternatives gives, *)
(* per part of the page, further values that reach the remaining branches.  *)

GoodUrl ==
    [ kind |-> "valid", href |-> "https://a.example/", protocol |-> "https:",
      hostname |-> "a.example", pathLength |-> 1, totalUrlLength |-> 18,
      queryParams |-> <<>>, containsStopWords |-> FALSE, isCleanFormat |-> TRUE ]

BadUrl ==
    [ kind |-> "valid", href |-> "http://a.example/the__long/path?sort=1&id=2",
      protocol |-> "http:", hostname |-> "a.example", pathLength |-> 120,
      totalUrlLength |-> 160, queryParams |-> <<"sort", "id">>,
      containsStopWords |-> TRUE, isCleanFormat |-> FALSE ]

GoodImg ==
    [ src |-> "https://a.example/logo.webp", altAttr |-> TRUE, alt |-> "logo",
      width |-> TRUE, height |-> TRUE, isLazyLoaded |-> TRUE, lazyAttr |-> TRUE,
      hasResponsiveConfig |-> TRUE, fileExtension |-> "webp" ]

BadImg ==
    [ src |-> "https://a.example/photo.jpg", altAttr |-> FALSE, alt |-> "",
      width |-> FALSE, height |-> FALSE, isLazyLoaded |-> FALSE, lazyAttr |-> FALSE,
      hasResponsiveConfig |-> FALSE, fileExtension |-> "jpg" ]

Keyword(word, inTitle, inH1, inMeta, occurrences) ==
    [ keyword |-> word, inTitle |-> inTitle, inH1 |-> inH1, inUrl |-> FALSE,
      inMetaDescription |-> inMeta, occurrences |-> occurrences, regexSafe |-> TRUE ]

Anchor(kind, href) == [kind |-> kind, href |-> href]

\* What the HEAD request of each link answers.
LinkProbes ==
    [ href \in {"/ok", "/gone", "/down", "#top", "x://["} |->
        CASE href = "/gone" -> [failed |-> FALSE, status |-> 404]
          [] href = "/down" -> [failed |-> TRUE, status |-> 0]
          [] OTHER          -> [failed |-> FALSE, status |-> 200] ]

GoodSite ==
    [ json |-> TRUE, url |-> GoodUrl, fetchOk |-> TRUE,
      metaTags |-> [title |-> "A good page title", description |-> "d"],
      headings |-> [levels |-> <<1, 2, 3>>],
      content |-> [wordCount |-> 800, paragraphs |-> 6, tables |-> 0,
                   bodyLength |-> 5000, htmlLength |-> 20000],
      images |-> <<GoodImg>>,
      social |-> [openGraph |-> [title |-> "t", description |-> "d", image |-> "i"],
                  twitter |-> [card |-> "summary", title |-> "t", image |-> "i"]],
      schema |-> [schemas |-> 3,
                  schemaTypes |-> <<"WebPage", "Organization", "BreadcrumbList">>],
      internalLinks |-> [total |-> 5, generic |-> 0, noText |-> 0, nofollow |-> 0,
                         duplicatePaths |-> 0, inMainContent |-> 3],
      externalLinks |-> [total |-> 1, nofollow |-> 1, blankWithoutSafeRel |-> 0,
                         toxicWithoutNofollow |-> 0],
      mobile |-> [hasMobileViewport |-> TRUE, preventsZoom |-> FALSE,
                  fixedWidthElements |-> 0, smallFontElements |-> 0,
                  smallTouchElements |-> 0, hasMediaQueries |-> TRUE],
      performance |-> [scripts |-> 2, externalScripts |-> 1, styles |-> 1,
                       inlineStyles |-> 1, renderBlockingStyles |-> 1,
                       renderBlockingScripts |-> 0, hasPreconnect |-> TRUE,
                       hasDNSPrefetch |-> FALSE, hasJQuery |-> FALSE,
                       hasGoogleFonts |-> FALSE],
      keywords |-> <<Keyword("audit", TRUE, TRUE, TRUE, 8)>>,
      canonical |-> [canonicalUrl |-> "https://a.example/", count |-> 1,
                     hasPrevLink |-> FALSE, hasNextLink |-> FALSE],
      hreflang |-> <<>>,
      language |-> [htmlLang |-> "en", metaLang |-> ""],
      readability |-> [sentences |-> 10, words |-> 100, syllables |-> 130,
                       complexWordCount |-> 5, passiveVoiceCount |-> 0],
      structuredData |-> [invalidJsonLd |-> 0, itemscopes |-> <<>>],
      amp |-> [isAmp |-> FALSE, hasAmpLink |-> TRUE, ampComponents |-> 0],
      favicon |-> [links |-> 2, hasDefaultFavicon |-> TRUE, hasAppleTouchIcon |-> TRUE,
                   hasDifferentSizes |-> TRUE],
      anchors |-> <<Anchor("http", "/ok")>>,
      robotsTxt |-> [failed |-> FALSE, status |-> 200, hasDisallow |-> FALSE,
                     hasSitemapDirective |-> TRUE, userAgentSections |-> 1],
      sitemap |-> [failed |-> FALSE, status |-> 200, isValidXml |-> TRUE, urlCount |-> 4,
                   isSitemapIndex |-> FALSE, hasLastmod |-> TRUE],
      probe |-> LinkProbes ]

BadSite ==
    [ json |-> TRUE, url |-> BadUrl, fetchOk |-> TRUE,
      metaTags |-> [title |-> "", description |-> ""],
      headings |-> [levels |-> <<2, 4>>],
      content |-> [wordCount |-> 600, paragraphs |-> 1, tables |-> 0,
                   bodyLength |-> 4000, htmlLength |-> 120000],
      images |-> <<BadImg, BadImg, BadImg, BadImg>>,
      social |-> [openGraph |-> [title |-> "t", description |-> "", image |-> ""],
                  twitter |-> [card |-> "", title |-> "t", image |-> ""]],
      schema |-> [schemas |-> 1, schemaTypes |-> <<"Product">>],
      internalLinks |-> [total |-> 10, generic |-> 1, noText |-> 1, nofollow |-> 4,
                         duplicatePaths |-> 4, inMainContent |-> 0],
      externalLinks |-> [total |-> 3, nofollow |-> 0, blankWithoutSafeRel |-> 1,
                         toxicWithoutNofollow |-> 1],
      mobile |-> [hasMobileViewport |-> FALSE, preventsZoom |-> TRUE,
                  fixedWidthElements |-> 6, smallFontElements |-> 6,
                  smallTouchElements |-> 1, hasMediaQueries |-> FALSE],
      performance |-> [scripts |-> 16, externalScripts |-> 4, styles |-> 6,
                       inlineStyles |-> 5, renderBlockingStyles |-> 3,
                       renderBlockingScripts |-> 3, hasPreconnect |-> FALSE,
                       hasDNSPrefetch |-> FALSE, hasJQuery |-> TRUE,
                       hasGoogleFonts |-> TRUE],
      keywords |-> <<Keyword("audit", FALSE, FALSE, FALSE, 60),
                     Keyword("missing", FALSE, FALSE, TRUE, 1)>>,
      canonical |-> [canonicalUrl |-> "/page", count |-> 2,
                     hasPrevLink |-> TRUE, hasNextLink |-> FALSE],
      hreflang |-> <<[hreflang |-> "fr", hrefRelative |-> TRUE]>>,
      language |-> [htmlLang |-> "en", metaLang |-> "de"],
      readability |-> [sentences |-> 4, words |-> 120, syllables |-> 300,
                       complexWordCount |-> 30, passiveVoiceCount |-> 6],
      structuredData |-> [invalidJsonLd |-> 1,
                          itemscopes |-> << [itemtype |-> "", hasNameOrPrice |-> FALSE,
                                             hasHeadline |-> FALSE],
                                            [itemtype |-> "", hasNameOrPrice |-> FALSE,
                                             hasHeadline |-> FALSE],
                                            [itemtype |-> "Product", hasNameOrPrice |-> FALSE,
                                             hasHeadline |-> FALSE] >>],
      amp |-> [isAmp |-> FALSE, hasAmpLink |-> FALSE, ampComponents |-> 0],
      favicon |-> [links |-> 0, hasDefaultFavicon |-> FALSE, hasAppleTouchIcon |-> FALSE,
                   hasDifferentSizes |-> FALSE],
      anchors |-> <<Anchor("http", "/gone")>>,
      robotsTxt |-> [failed |-> FALSE, status |-> 200, hasDisallow |-> TRUE,
                     hasSitemapDirective |-> FALSE, userAgentSections |-> 0],
      sitemap |-> [failed |-> FALSE, status |-> 200, isValidXml |-> FALSE, urlCount |-> 0,
                   isSitemapIndex |-> FALSE, hasLastmod |-> FALSE],
      probe |-> LinkProbes ]

\* The parts of a page, in the order in which the graded pages turn bad.
GradeKeys ==
    << "headings", "content", "url", "images", "social", "schema", "internalLinks",
       "externalLinks", "mobile", "performance", "keywords", "canonical", "hreflang",
       "robotsTxt", "sitemap", "readability", "anchors", "language", "structuredData",
       "amp", "favicon" >>

Alternatives(k) ==
    CASE k = "json"     -> {FALSE}
      [] k = "fetchOk"  -> {FALSE}
      [] k = "metaTags" -> { [title |-> "", description |-> "d"],
                             [title |-> "Short", description |-> "d"],
                             [title |->
                                 "A page title that runs on to a length of more than sixty characters",
                              description |-> "d"] }
      [] k = "url"      -> { [GoodUrl EXCEPT !.kind = "missing", !.href = ""],
                             [GoodUrl EXCEPT !.kind = "invalid", !.href = "not a url"],
                             [GoodUrl EXCEPT !.protocol = "http:",
                                             !.href = "http://a.example/"],
                             [GoodUrl EXCEPT !.queryParams = <<"id">>] }
      [] k = "headings" -> { [levels |-> <<>>], [levels |-> <<1, 1>>], [levels |-> <<1, 3>>],
                             [levels |-> <<3, 1, 2>>], [levels |-> <<1, 2, 3, 2, 4>>] }
                           \cup { [levels |-> l] : l \in [1..3 -> 1..4] }
      [] k = "content"  -> { [wordCount |-> 120, paragraphs |-> 1, tables |-> 0,
                              bodyLength |-> 700, htmlLength |-> 3000],
                             [wordCount |-> 0, paragraphs |-> 0, tables |-> 0,
                              bodyLength |-> 0, htmlLength |-> 200] }
      [] k = "images"   -> { <<>>,
                             <<GoodImg, [GoodImg EXCEPT !.alt = ""]>>,
                             <<BadImg, GoodImg>>,
                             <<[GoodImg EXCEPT !.src = "data:", !.fileExtension = "png"]>>,
                             <<BadImg, BadImg, BadImg, BadImg, BadImg, BadImg>>,
                             <<[GoodImg EXCEPT !.src = "malformed"]>> }
      [] k = "social"   -> { [openGraph |-> [title |-> "", description |-> "", image |-> "i"],
                              twitter |-> [card |-> "", title |-> "", image |-> ""]],
                             [openGraph |-> [title |-> "", description |-> "d", image |-> ""],
                              twitter |-> [card |-> "summary", title |-> "", image |-> ""]] }
      [] k = "schema"   -> { [schemas |-> 0, schemaTypes |-> <<>>],
                             [schemas |-> 1, schemaTypes |-> <<"NewsArticle">>] }
      [] k = "internalLinks" -> { [total |-> 0, generic |-> 0, noText |-> 0, nofollow |-> 0,
                                   duplicatePaths |-> 0, inMainContent |-> 0] }
      [] k = "keywords" -> { <<>>,
                             <<Keyword("audit", TRUE, FALSE, TRUE, 2)>>,
                             <<Keyword("missing", FALSE, FALSE, FALSE, 3)>>,
                             <<Keyword("audit", FALSE, FALSE, FALSE, 0),
                               Keyword("page", TRUE, TRUE, TRUE, 1)>>,
                             <<Keyword("seo", TRUE, TRUE, TRUE, 1),
                               Keyword("with", FALSE, FALSE, FALSE, 3)>>,
                             <<[Keyword("c++", TRUE, FALSE, FALSE, 0)
                                  EXCEPT !.regexSafe = FALSE]>> }
      [] k = "canonical" -> { [canonicalUrl |-> "", count |-> 0,
                               hasPrevLink |-> TRUE, hasNextLink |-> FALSE],
                              [canonicalUrl |-> "https://a.example/other", count |-> 1,
                               hasPrevLink |-> FALSE, hasNextLink |-> FALSE] }
      [] k = "hreflang" -> { << [hreflang |-> "en-US", hrefRelative |-> FALSE],
                                [hreflang |-> "x-default", hrefRelative |-> FALSE] >> }
      [] k = "language" -> { [htmlLang |-> "", metaLang |-> ""] }
      [] k = "readability" -> { [sentences |-> 0, words |-> 0, syllables |-> 0,
                                 complexWordCount |-> 0, passiveVoiceCount |-> 0] }
      [] k = "structuredData" -> { [invalidJsonLd |-> 2, itemscopes |-> <<>>],
                                   [invalidJsonLd |-> 0,
                                    itemscopes |-> << [itemtype |-> "Article",
                                                       hasNameOrPrice |-> FALSE,
                                                       hasHeadline |-> FALSE] >>] }
      [] k = "anchors"  -> { <<>>,
                             <<Anchor("http", "/down")>>,
                             <<Anchor("skipped", "#top"), Anchor("http", "/ok"),
                               Anchor("http", "/gone"), Anchor("http", "/down")>>,
                             [i \in 1..11 |-> IF i = 11 THEN Anchor("http", "/gone")
                                                        ELSE Anchor("http", "/ok")],
                             [i \in 1..12 |-> IF i \in {1, 11} THEN Anchor("http", "/gone")
                                              ELSE IF i = 12 THEN Anchor("http", "/down")
                                              ELSE Anchor("http", "/ok")],
                             <<Anchor("malformed", "x://[")>> }
      [] k = "robotsTxt" -> { [failed |-> TRUE, status |-> 0, hasDisallow |-> FALSE,
                               hasSitemapDirective |-> FALSE, userAgentSections |-> 0],
                              [failed |-> FALSE, status |-> 204, hasDisallow |-> FALSE,
                               hasSitemapDirective |-> FALSE, userAgentSections |-> 0] }
      [] k = "sitemap"  -> { [failed |-> TRUE, status |-> 0, isValidXml |-> FALSE,
                              urlCount |-> 0, isSitemapIndex |-> FALSE, hasLastmod |-> FALSE],
                             [failed |-> FALSE, status |-> 200, isValidXml |-> TRUE,
                              urlCount |-> 0, isSitemapIndex |-> TRUE, hasLastmod |-> FALSE] }
      [] OTHER          -> {}

\* The page whose first j parts (in GradeKeys order) are the bad ones.
Graded(j) ==
    [ k \in DOMAIN GoodSite |->
        IF \E i \in 1..j : GradeKeys[i] = k THEN BadSite[k] ELSE GoodSite[k] ]

\* Every graded page, as it is and with one part replaced by an alternative.
Sites ==
    { Graded(j) : j \in 0..Len(GradeKeys) }
    \cup UNION { { [Graded(j) EXCEPT ![k] = a] : a \in Alternatives(k) } :
                   j \in 0..Len(GradeKeys), k \in DOMAIN GoodSite }

----------------------------------------------------------------------------
(* The audit handler: POST, route.ts 1748-2035 *)

\* Number of times POST is invoked on the same request and site.
MaxRuns == 2

\* overallScore is held in tenths: 975 stands for 97.5.
ScoreUnit == 10

HtmlKeys ==
    { "metaTags", "headings", "content", "images", "social", "schema", "internalLinks",
      "externalLinks", "mobile", "performance", "keywords", "canonical", "hreflang",
      "language", "readability", "structuredData", "amp", "favicon", "anchors" }

\* response.data of the page fetch: the page without what the other requests answer.
PageOf(s) == [k \in HtmlKeys |-> s[k]]

NoHtml == [k \in HtmlKeys |-> <<>>]
NoIssues == [c \in Checks |-> <<>>]
NoBuckets == [critical |-> <<>>, major |-> <<>>, minor |-> <<>>]
NoResponse ==
    [ status |-> 0, error |-> "", overallScore |-> 0, issues |-> NoBuckets,
      broken |-> <<>>, categoryScores |-> <<>>, timestamp |-> 0 ]

\* issue.includes(needle), for the needles of route.ts 1837-1856 over the issue
\* strings of the analysis functions.  Only a keyword can bring a needle in
\* through the interpolated part.
Includes(issue, needle) ==
    LET t == issue.text
    IN  CASE needle = "No H1"           -> t = "No H1 heading found"
          [] needle = "broken links"    -> t = " broken links found"
          [] needle = "not using HTTPS" -> t = "Website is not using HTTPS"
          [] needle = "Invalid JSON-LD" -> t = "Invalid JSON-LD: "
          [] needle = "missing lang attribute" ->
                 t = "HTML tag is missing lang attribute"
          [] needle = "missing" ->
                 \/ t \in { " images missing alt text",
                            " images missing width/height attributes",
                            " external links missing noopener/noreferrer with target=_blank",
                            "HTML tag is missing lang attribute",
                            "Product schema missing required properties (name, price)",
                            "Article schema missing required headline property" }
                 \/ issue.arg = "missing"
          [] needle = "too short" -> t = "Content is too short (less than 300 words)"
          [] needle = "too long" ->
                 t \in { "URL path is too long (over 100 characters)",
                         "Total URL length is too long (over 150 characters)",
                         "Average sentence length is too long" }
          [] needle = "High number" ->
                 t \in {"High number of script tags", "High number of stylesheets"}
          [] needle = "No schema markup"   -> t = "No schema markup detected"
          [] needle = "No canonical"       -> t = "No canonical URL specified"
          [] needle = "No mobile viewport" -> t = "No mobile viewport meta tag"
          [] OTHER -> FALSE

\* Array.prototype.includes over an array of issue strings.
ArrayIncludes(array, issue) == \E i \in 1..Len(array) : array[i] = issue

\* route.ts 1837-1844
CriticalIssues(all) ==
    LET Test(issue) ==
            \/ Includes(issue, "No H1")
            \/ Includes(issue, "broken links")
            \/ Includes(issue, "not using HTTPS")
            \/ Includes(issue, "Invalid JSON-LD")
            \/ Includes(issue, "missing lang attribute")
    IN  SelectSeq(all, Test)

\* Faulty variant: the major filter without its `!criticalIssues.includes(issue)` guard.
MajorIssuesUnguarded(all, criticalIssues) ==
    LET Test(issue) ==
            \/ Includes(issue, "missing")
            \/ Includes(issue, "too short")
            \/ Includes(issue, "too long")
            \/ Includes(issue, "High number")
            \/ Includes(issue, "No schema markup")
            \/ Includes(issue, "No canonical")
            \/ Includes(issue, "No mobile viewport")
    IN  SelectSeq(all, Test)

\* route.ts 1846-1856
MajorIssues(all, criticalIssues) ==
    LET Test(issue) ==
            /\ ~ArrayIncludes(criticalIssues, issue)
            /\ \/ Includes(issue, "missing")
               \/ Includes(issue, "too short")
               \/ Includes(issue, "too long")
               \/ Includes(issue, "High number")
               \/ Includes(issue, "No schema markup")
               \/ Includes(issue, "No canonical")
               \/ Includes(issue, "No mobile viewport")
    IN  SelectSeq(all, Test)

\* route.ts 1858
MinorIssues(all, criticalIssues, majorIssues) ==
    LET Test(issue) ==
            ~ArrayIncludes(criticalIssues, issue) /\ ~ArrayIncludes(majorIssues, issue)
    IN  SelectSeq(all, Test)

\* Faulty variant: the issue lists merged in the order in which the functions completed.
CombineInCompletionOrder(o) ==
    LET Merged(c) == \E i \in 1..Len(MergeOrder) : MergeOrder[i] = c
        order == SelectSeq(InvocationOrder, Merged)
    IN  Flatten([i \in 1..Len(order) |-> o[order[i]]])

\* route.ts 1808-1829: the array literal spreads the issue lists in MergeOrder.
CombineIssues(o) == Flatten([i \in 1..Len(MergeOrder) |-> o[MergeOrder[i]]])

\* Faulty variant: the deductions are not capped.
OverallScoreUncapped(all) ==
    LET maxScore == 100 * ScoreUnit
        deductions == Len(all) * 25
    IN  Max(0, maxScore - deductions)

\* Faulty variant: a score that depends on when POST is invoked.
OverallScoreByInvocation(all) ==
    LET maxScore == 100 * ScoreUnit
        deductions == Min((Len(all) + run - 1) * 25, 70 * ScoreUnit)
    IN  Max(0, maxScore - deductions)

\* route.ts 1832-1834, in tenths:
\*   deductions = Math.min(allIssues.length * 2.5, 70)
\*   overallScore = Math.max(0, maxScore - deductions)
OverallScore(all) ==
    LET maxScore == 100 * ScoreUnit
        deductions == Min(Len(all) * 25, 70 * ScoreUnit)
    IN  Max(0, maxScore - deductions)

\* The catch of route.ts 2031-2034.
ErrorResponse(status, message) ==
    [NoResponse EXCEPT !.status = status, !.error = message]

\* The next analysis function POST calls.
NextCheck == InvocationOrder[Cardinality(ran) + 1]

\* const { url } = await request.json(): a body that is no JSON makes it throw.
ParseBody ==
    /\ pc = "start"
    /\ IF request.json
       THEN /\ url' = request.url
            /\ pc' = "validate"
            /\ UNCHANGED response
       ELSE /\ response' = ErrorResponse(500, "Failed to perform SEO audit")
            /\ pc' = "done"
            /\ UNCHANGED url
    /\ UNCHANGED <<request, site, html, ran, out, allIssues, overallScore, issues, run,
                   firstResponse>>
    /\ UNCHANGED <<limiterVars, pageVars>>

\* route.ts 1752-1761
ValidateUrl ==
    /\ pc = "validate"
    /\ IF url.kind = "missing"
       THEN response' = ErrorResponse(400, "URL is required") /\ pc' = "done"
       ELSE IF url.kind = "invalid"
       THEN response' = ErrorResponse(400, "Invalid URL format") /\ pc' = "done"
       ELSE pc' = "fetch" /\ UNCHANGED response
    /\ UNCHANGED <<request, site, url, html, ran, out, allIssues, overallScore, issues, run,
                   firstResponse>>
    /\ UNCHANGED <<limiterVars, pageVars>>

\* route.ts 1764-1765: fetchUrl rethrows what axios.get throws.
FetchPage ==
    /\ pc = "fetch"
    /\ IF site.fetchOk
       THEN html' = PageOf(site) /\ pc' = "analyse" /\ UNCHANGED response
       ELSE /\ response' = ErrorResponse(500, "Failed to perform SEO audit")
            /\ pc' = "done"
            /\ UNCHANGED html
    /\ UNCHANGED <<request, site, url, ran, out, allIssues, overallScore, issues, run,
                   firstResponse>>
    /\ UNCHANGED <<limiterVars, pageVars>>

\* Faulty variant: analyzeHreflang fills in a default lang attribute on the shared page.
CallCheckWritingPage(c) ==
    /\ IF Throws(c, html)
       THEN /\ response' = ErrorResponse(500, "Failed to perform SEO audit")
            /\ pc' = "done"
            /\ UNCHANGED <<ran, out, html>>
       ELSE /\ ran' = ran \cup {c}
            /\ out' = [out EXCEPT ![c] = IssuesOf(c, html, url, site)]
            /\ html' = IF c = "hreflang" /\ html.language.htmlLang = ""
                       THEN [html EXCEPT !.language.htmlLang = "en"]
                       ELSE html
            /\ pc' = IF Cardinality(ran') = Len(InvocationOrder) THEN "combine" ELSE pc
            /\ UNCHANGED response
    /\ UNCHANGED <<request, site, url, allIssues, overallScore, issues, run,
                   firstResponse>>
    /\ UNCHANGED <<limiterVars, pageVars>>

\* One call of an analysis function: it returns its issues, or throws into the
\* catch of POST.
CallCheck(c) ==
    /\ IF Throws(c, html)
       THEN /\ response' = ErrorResponse(500, "Failed to perform SEO audit")
            /\ pc' = "done"
            /\ UNCHANGED <<ran, out>>
       ELSE /\ ran' = ran \cup {c}
            /\ out' = [out EXCEPT ![c] = IssuesOf(c, html, url, site)]
            /\ pc' = IF Cardinality(ran') = Len(InvocationOrder) THEN "combine" ELSE pc
            /\ UNCHANGED response
    /\ UNCHANGED <<request, site, url, html, allIssues, overallScore, issues, run,
                   firstResponse>>
    /\ UNCHANGED <<limiterVars, pageVars>>

\* route.ts 1768-1800: the synchronous analysis functions.
RunCheck ==
    /\ pc = "analyse"
    /\ NextCheck \notin AsyncChecks
    /\ CallCheck(NextCheck)

\* route.ts 1803-1805: the awaited analysis functions.
AwaitCheck ==
    /\ pc = "analyse"
    /\ NextCheck \in AsyncChecks
    /\ CallCheck(NextCheck)

\* route.ts 1808-1858
CombineAndScore ==
    /\ pc = "combine"
    /\ allIssues' = CombineIssues(out)
    /\ overallScore' = OverallScore(allIssues')
    /\ \E criticalIssues \in {CriticalIssues(allIssues')} :
       \E majorIssues \in {MajorIssues(allIssues', criticalIssues)} :
       \E minorIssues \in {MinorIssues(allIssues', criticalIssues, majorIssues)} :
           issues' = [critical |-> criticalIssues, major |-> majorIssues,
                      minor |-> minorIssues]
    /\ pc' = "respond"
    /\ UNCHANGED <<request, site, url, html, ran, out, response, run, firstResponse>>
    /\ UNCHANGED <<limiterVars, pageVars>>

\* route.ts 1942-2030; the timestamp is the time of the invocation.  The result
\* object has no categoryScores property (SEOAuditResult, part_000 24): a reader
\* of it finds no category score.
Respond ==
    /\ pc = "respond"
    /\ response' = [ status |-> 200, error |-> "", overallScore |-> overallScore,
                     issues |-> issues, broken |-> BrokenLinks(html, site),
                     categoryScores |-> <<>>, timestamp |-> run ]
    /\ pc' = "done"
    /\ UNCHANGED <<request, site, url, html, ran, out, allIssues, overallScore, issues, run,
                   firstResponse>>
    /\ UNCHANGED <<limiterVars, pageVars>>

\* POST is invoked again on the same request, with fresh locals.
Rerun ==
    /\ pc = "done"
    /\ run < MaxRuns
    /\ run' = run + 1
    /\ firstResponse' = response
    /\ pc' = "start"
    /\ url' = GoodUrl
    /\ html' = NoHtml
    /\ ran' = {}
    /\ out' = NoIssues
    /\ allIssues' = <<>>
    /\ overallScore' = 0
    /\ issues' = NoBuckets
    /\ response' = NoResponse
    /\ UNCHANGED <<request, site>>
    /\ UNCHANGED <<limiterVars, pageVars>>

InitAudit ==
    /\ site \in Sites
    /\ request = [json |-> site.json, url |-> site.url]
    /\ pc = "start"
    /\ url = GoodUrl
    /\ html = NoHtml
    /\ ran = {}
    /\ out = NoIssues
    /\ allIssues = <<>>
    /\ overallScore = 0
    /\ issues = NoBuckets
    /\ response = NoResponse
    /\ run = 1
    /\ firstResponse = NoResponse

NextAudit ==
    \/ ParseBody
    \/ ValidateUrl
    \/ FetchPage
    \/ RunCheck
    \/ AwaitCheck
    \/ CombineAndScore
    \/ Respond
    \/ Rerun

----------------------------------------------------------------------------
(* The rate limiter: rateLimit, part_001 *)

\* The clients, and the parameters the limiter is built and called with; times
\* are in milliseconds.
Tokens == {"ip1", "ip2"}
Interval == 1500
UniqueTokenPerInterval == 1
Limit == 2
\* The clock advances in steps of TickLength up to MaxTime.
TickLength == 700
MaxTime == 2800

NoCheck == [token |-> "", at |-> 0, outcome |-> "none", statusCode |-> 0, retryAfter |-> {}]

\* Faulty variant: the seconds are rounded down.
FloorSeconds(ms) == IF ms >= 0 THEN ms \div 1000 ELSE -((-ms + 999) \div 1000)

\* Math.ceil(ms / 1000)
CeilSeconds(ms) == IF ms >= 0 THEN (ms + 999) \div 1000 ELSE -((-ms) \div 1000)

\* Faulty variant: the comparison of the filter turned around.
FilterStale(timestamps, at) ==
    LET Stale(timestamp) == at - timestamp > Interval
    IN  SelectSeq(timestamps, Stale)

\* part_001 20 and 44: timestamps.filter((timestamp) => now - timestamp < options.interval)
FilterRecent(timestamps, at) ==
    LET Recent(timestamp) == at - timestamp < Interval
    IN  SelectSeq(timestamps, Recent)

\* part_001 15-29: the token cache and the active tokens after cleanup() at time `at`.
RECURSIVE CleanupFrom(_, _, _, _)
CleanupFrom(todo, cache, active, at) ==
    IF todo = <<>> THEN [tokenCache |-> cache, activeTokens |-> active]
    ELSE LET token == Head(todo)
             Other(t) == t # token
         IN  IF token \notin DOMAIN cache
             THEN CleanupFrom(Tail(todo), cache, active, at)
             ELSE LET newTimestamps == FilterRecent(cache[token], at)
                  IN  IF Len(newTimestamps) > 0
                      THEN CleanupFrom(Tail(todo),
                                       [t \in DOMAIN cache |->
                                           IF t = token THEN newTimestamps ELSE cache[t]],
                                       active, at)
                      ELSE CleanupFrom(Tail(todo),
                                       [t \in DOMAIN cache \ {token} |-> cache[t]],
                                       SelectSeq(active, Other), at)

cleanup(cache, active, at) == CleanupFrom(active, cache, active, at)

\* tokenCache.set(token, timestamps)
MapSet(cache, token, timestamps) ==
    [t \in DOMAIN cache \cup {token} |-> IF t = token THEN timestamps ELSE cache[t]]

\* Faulty variant: the timer keeps only what is younger than its own period,
\* interval / 10.
CleanupByPeriod ==
    /\ LET Young(timestamp) == now - timestamp < Interval \div 10
           Kept(token) == SelectSeq(tokenCache[token], Young) # <<>>
       IN  /\ tokenCache' = [token \in {t \in DOMAIN tokenCache : Kept(t)} |->
                                SelectSeq(tokenCache[token], Young)]
           /\ activeTokens' = SelectSeq(activeTokens, Kept)
    /\ UNCHANGED <<now, lastCheck, admitted>>
    /\ UNCHANGED <<auditVars, pageVars>>

\* part_001 32: the periodic cleanup.
Cleanup ==
    /\ \E cleaned \in {cleanup(tokenCache, activeTokens, now)} :
        /\ tokenCache' = cleaned.tokenCache
        /\ activeTokens' = cleaned.activeTokens
    /\ UNCHANGED <<now, lastCheck, admitted>>
    /\ UNCHANGED <<auditVars, pageVars>>

\* Faulty variant: the token cache is updated before the limit is tested, so
\* that a call rejected for its limit is recorded as well.
CheckRecordingFirst(limit, token) ==
    \E cleaned \in {cleanup(tokenCache, activeTokens, now)} :
    \E tokenTimestamps \in {IF token \in DOMAIN cleaned.tokenCache
                            THEN cleaned.tokenCache[token] ELSE <<>>} :
    \E newTimestamps \in {Append(FilterRecent(tokenTimestamps, now), now)} :
        /\ tokenCache' = MapSet(cleaned.tokenCache, token, newTimestamps)
        /\ activeTokens' =
               IF \E k \in 1..Len(cleaned.activeTokens) : cleaned.activeTokens[k] = token
               THEN cleaned.activeTokens
               ELSE Append(cleaned.activeTokens, token)
        /\ IF Len(newTimestamps) > limit
           THEN /\ lastCheck' = [ token |-> token, at |-> now, outcome |-> "rejected",
                                  statusCode |-> 429,
                                  retryAfter |->
                                      {CeilSeconds(Interval - (now - newTimestamps[1]))} ]
                /\ UNCHANGED admitted
           ELSE IF Cardinality(DOMAIN tokenCache') > UniqueTokenPerInterval
                THEN /\ lastCheck' = [ token |-> token, at |-> now,
                                       outcome |-> "rejected", statusCode |-> 429,
                                       retryAfter |-> {} ]
                     /\ UNCHANGED admitted
                ELSE /\ lastCheck' = [ token |-> token, at |-> now,
                                       outcome |-> "resolved", statusCode |-> 0,
                                       retryAfter |-> {} ]
                     /\ admitted' = [admitted EXCEPT ![token] = Append(@, now)]
        /\ UNCHANGED now
        /\ UNCHANGED <<auditVars, pageVars>>

\* Faulty variant: the number of tokens is tested as it was before the calling
\* token was recorded.
CheckCountingBefore(limit, token) ==
    \E cleaned \in {cleanup(tokenCache, activeTokens, now)} :
    \E tokenTimestamps \in {IF token \in DOMAIN cleaned.tokenCache
                            THEN cleaned.tokenCache[token] ELSE <<>>} :
    \E newTimestamps \in {Append(FilterRecent(tokenTimestamps, now), now)} :
        /\ IF Len(newTimestamps) > limit
           THEN /\ tokenCache' = cleaned.tokenCache
                /\ activeTokens' = cleaned.activeTokens
                /\ lastCheck' = [ token |-> token, at |-> now, outcome |-> "rejected",
                                  statusCode |-> 429,
                                  retryAfter |->
                                      {CeilSeconds(Interval - (now - newTimestamps[1]))} ]
                /\ UNCHANGED admitted
           ELSE /\ tokenCache' = MapSet(cleaned.tokenCache, token, newTimestamps)
                /\ activeTokens' =
                       IF \E k \in 1..Len(cleaned.activeTokens) : cleaned.activeTokens[k] = token
                       THEN cleaned.activeTokens
                       ELSE Append(cleaned.activeTokens, token)
                /\ IF Cardinality(DOMAIN cleaned.tokenCache) > UniqueTokenPerInterval
                   THEN /\ lastCheck' = [ token |-> token, at |-> now,
                                          outcome |-> "rejected", statusCode |-> 429,
                                          retryAfter |-> {} ]
                        /\ UNCHANGED admitted
                   ELSE /\ lastCheck' = [ token |-> token, at |-> now,
                                          outcome |-> "resolved", statusCode |-> 0,
                                          retryAfter |-> {} ]
                        /\ admitted' = [admitted EXCEPT ![token] = Append(@, now)]
        /\ UNCHANGED now
        /\ UNCHANGED <<auditVars, pageVars>>

\* part_001 35-73: check(limit, token) at the present time.
Check(limit, token) ==
    \E cleaned \in {cleanup(tokenCache, activeTokens, now)} :
    \E tokenTimestamps \in {IF token \in DOMAIN cleaned.tokenCache
                            THEN cleaned.tokenCache[token] ELSE <<>>} :
    \E newTimestamps \in {Append(FilterRecent(tokenTimestamps, now), now)} :
        /\ IF Len(newTimestamps) > limit
           THEN /\ tokenCache' = cleaned.tokenCache
                /\ activeTokens' = cleaned.activeTokens
                /\ lastCheck' = [ token |-> token, at |-> now, outcome |-> "rejected",
                                  statusCode |-> 429,
                                  retryAfter |->
                                      {CeilSeconds(Interval - (now - newTimestamps[1]))} ]
                /\ UNCHANGED admitted
           ELSE /\ tokenCache' = MapSet(cleaned.tokenCache, token, newTimestamps)
                /\ activeTokens' =
                       IF \E k \in 1..Len(cleaned.activeTokens) : cleaned.activeTokens[k] = token
                       THEN cleaned.activeTokens
                       ELSE Append(cleaned.activeTokens, token)
                /\ IF Cardinality(DOMAIN tokenCache') > UniqueTokenPerInterval
                   THEN /\ lastCheck' = [ token |-> token, at |-> now,
                                          outcome |-> "rejected", statusCode |-> 429,
                                          retryAfter |-> {} ]
                        /\ UNCHANGED admitted
                   ELSE /\ lastCheck' = [ token |-> token, at |-> now,
                                          outcome |-> "resolved", statusCode |-> 0,
                                          retryAfter |-> {} ]
                        /\ admitted' = [admitted EXCEPT ![token] = Append(@, now)]
        /\ UNCHANGED now
        /\ UNCHANGED <<auditVars, pageVars>>

\* A client calls check with the limit of the endpoint.
CallLimiter == \E token \in Tokens : Check(Limit, token)

\* Date.now() moves on.
Tick ==
    /\ now < MaxTime
    /\ now' = now + TickLength
    /\ UNCHANGED <<tokenCache, activeTokens, lastCheck, admitted>>
    /\ UNCHANGED <<auditVars, pageVars>>

InitLimiter ==
    /\ now = 0
    /\ tokenCache = <<>>
    /\ activeTokens = <<>>
    /\ lastCheck = NoCheck
    /\ admitted = [t \in Tokens |-> <<>>]

NextLimiter ==
    \/ CallLimiter
    \/ Cleanup
    \/ Tick

----------------------------------------------------------------------------
(* The results page: ResultsContent, loading.tsx 68-139 and 845-954 *)

\* The urls the query string takes, and its value when it has no url.
PageUrls == {"https://a.example/", "https://b.example/"}
NoUrl == ""

Versions == {"post", "get"}

\* Number of times the query string changes while the page is mounted.
MaxNavigations == 2

\* What the audit endpoint answers; 0 stands for a fetch that rejects.
Statuses == {0, 200, 429, 500}

\* response.ok
Ok(status) == status >= 200 /\ status <= 299

\* The title of the toast of each occasion.
ToastTitle(occasion) ==
    CASE occasion = "started"  -> IF version = "get" THEN "Analysis Started" ELSE toast
      [] occasion = "complete" -> IF version = "get" THEN "Analysis Complete"
                                                      ELSE "Audit Complete"
      [] occasion = "failed"   -> IF version = "get" THEN "Analysis Failed" ELSE "Error"

\* err.message || fallback
ErrorMessage(message) ==
    IF message # "" THEN message
    ELSE IF version = "get" THEN "Failed to analyze the website. Please try again."
                            ELSE "An error occurred while fetching results"

\* The query string changes to u.  React runs the effect of a render before the
\* next render, so the effect of the present url has run.
Navigate(u) ==
    /\ navigations < MaxNavigations
    /\ effectUrl = searchUrl
    /\ u # searchUrl
    /\ searchUrl' = u
    /\ navigations' = navigations + 1
    /\ UNCHANGED <<version, effectUrl, results, loading, error, toast, fetches>>
    /\ UNCHANGED <<auditVars, limiterVars>>

\* loading.tsx 854-870 (75-89): the effect runs for the url of the render, up
\* to the call of fetch.
RunEffect ==
    /\ effectUrl # searchUrl
    /\ effectUrl' = searchUrl
    /\ IF searchUrl = NoUrl
       THEN /\ error' = {[message |-> "No URL provided", url |-> NoUrl]}
            /\ loading' = FALSE
            /\ UNCHANGED <<toast, fetches>>
       ELSE /\ toast' = ToastTitle("started")
            /\ fetches' = Append(fetches, [url |-> searchUrl, stage |-> "fetch",
                                           outcome |-> "pending"])
            /\ UNCHANGED <<error, loading>>
    /\ UNCHANGED <<version, searchUrl, results, navigations>>
    /\ UNCHANGED <<auditVars, limiterVars>>

\* Faulty variant: the catch block without the finally block.
FailStillLoading(i, message) ==
    /\ error' = {[message |-> ErrorMessage(message), url |-> fetches[i].url]}
    /\ toast' = ToastTitle("failed")
    /\ fetches' = [fetches EXCEPT ![i].stage = "done", ![i].outcome = "failed"]
    /\ UNCHANGED <<version, searchUrl, effectUrl, results, loading, navigations>>
    /\ UNCHANGED <<auditVars, limiterVars>>

\* loading.tsx 890-903 (106-116): catch and finally of fetchResults.
Fail(i, message) ==
    /\ error' = {[message |-> ErrorMessage(message), url |-> fetches[i].url]}
    /\ toast' = ToastTitle("failed")
    /\ loading' = FALSE
    /\ fetches' = [fetches EXCEPT ![i].stage = "done", ![i].outcome = "failed"]
    /\ UNCHANGED <<version, searchUrl, effectUrl, results, navigations>>
    /\ UNCHANGED <<auditVars, limiterVars>>

\* loading.tsx 880-889 and 901-903 (99-105, 113-115): the data arrive.
Succeed(i) ==
    /\ results' = {[url |-> fetches[i].url]}
    /\ toast' = ToastTitle("complete")
    /\ loading' = FALSE
    /\ fetches' = [fetches EXCEPT ![i].stage = "done", ![i].outcome = "succeeded"]
    /\ UNCHANGED <<version, searchUrl, effectUrl, error, navigations>>
    /\ UNCHANGED <<auditVars, limiterVars>>

\* loading.tsx 870-878 (86-97): the fetch of call i settles.
FetchSettles(i, status) ==
    /\ fetches[i].stage = "fetch"
    /\ IF status = 0
       THEN Fail(i, "Failed to fetch")
       ELSE IF Ok(status)
       THEN /\ fetches' = [fetches EXCEPT ![i].stage = "json"]
            /\ UNCHANGED <<version, searchUrl, effectUrl, results, loading, error,
                           toast, navigations>>
            /\ UNCHANGED <<auditVars, limiterVars>>
       ELSE IF version = "post"
       THEN /\ fetches' = [fetches EXCEPT ![i].stage = "errorJson"]
            /\ UNCHANGED <<version, searchUrl, effectUrl, results, loading, error,
                           toast, navigations>>
            /\ UNCHANGED <<auditVars, limiterVars>>
       ELSE IF status = 429
       THEN Fail(i, "Rate limit exceeded. Please try again in a minute.")
       ELSE Fail(i, "Error: 500")

\* loading.tsx 880-881 (95-99): response.json() of call i settles; errorText is
\* errorData.error of an answer that is not ok.
JsonSettles(i, parsed, errorText) ==
    /\ fetches[i].stage \in {"json", "errorJson"}
    /\ IF ~parsed
       THEN Fail(i, "Unexpected end of JSON input")
       ELSE IF fetches[i].stage = "json"
       THEN Succeed(i)
       ELSE Fail(i, IF errorText # "" THEN errorText ELSE "Failed to fetch results")

FetchSettle == \E i \in 1..Len(fetches) : \E status \in Statuses : FetchSettles(i, status)

JsonSettle ==
    \E i \in 1..Len(fetches) : \E parsed \in BOOLEAN :
        \E errorText \in {"", "Failed to analyze website"} :
            JsonSettles(i, parsed, errorText)

NavigateTo == \E u \in PageUrls \cup {NoUrl} : Navigate(u)

\* loading.tsx 906-954 (119-139): what the component renders.
Shown ==
    IF version = "get"
    THEN IF searchUrl = NoUrl THEN "no url"
         ELSE IF loading THEN "loading"
         ELSE IF error # {} THEN "error"
         ELSE IF results # {} THEN "results"
         ELSE "nothing"
    ELSE IF loading THEN "loading"
         ELSE IF error # {} THEN "error"
         ELSE IF results = {} THEN "no results"
         ELSE "results"

\* The component as mounted: useState(null), useState(true), useState(null).
InitPage ==
    /\ version \in Versions
    /\ searchUrl \in PageUrls \cup {NoUrl}
    /\ effectUrl = "unset"
    /\ results = {}
    /\ loading = TRUE
    /\ error = {}
    /\ toast = ""
    /\ fetches = <<>>
    /\ navigations = 0

\* The page while nobody looks at it.
InitNoPage == InitPage /\ version = "get" /\ searchUrl = NoUrl

NextPage ==
    \/ NavigateTo
    \/ RunEffect
    \/ FetchSettle
    \/ JsonSettle

----------------------------------------------------------------------------

Init == InitAudit /\ InitLimiter /\ InitNoPage

Next == NextAudit

\* The audit handler, which does not call the limiter.
Spec == Init /\ [][Next]_vars

\* The limiter on its own, while no audit runs.
InitIdle == InitAudit /\ site = GoodSite /\ InitLimiter /\ InitNoPage

SpecLimiter == InitIdle /\ [][NextLimiter]_vars

\* The client that keeps calling check.
Caller == "ip1"

\* The limiter while the clock runs on and the client Caller keeps calling:
\* Date.now() advances whatever the limiter does, and each call of check runs
\* to its end in one turn of the event loop.
SpecLimiterFair ==
    /\ InitIdle
    /\ [][NextLimiter]_vars
    /\ WF_vars(Tick)
    /\ WF_vars(Check(Limit, Caller))

----------------------------------------------------------------------------
(* One client sending a burst of requests to the audit endpoint *)

\* part_004 111: "The API is limited to 5 requests per minute per IP address."
RequestsPerMinute == 5

\* Number of requests of the burst.
MaxRequests == 6

\* The client sends its next request as soon as the last one is answered; the
\* clock `now` does not advance during the burst.
Resend ==
    /\ pc = "done"
    /\ run < MaxRequests
    /\ run' = run + 1
    /\ firstResponse' = response
    /\ pc' = "start"
    /\ url' = GoodUrl
    /\ html' = NoHtml
    /\ ran' = {}
    /\ out' = NoIssues
    /\ allIssues' = <<>>
    /\ overallScore' = 0
    /\ issues' = NoBuckets
    /\ response' = NoResponse
    /\ UNCHANGED <<request, site>>
    /\ UNCHANGED <<limiterVars, pageVars>>

InitBurst == InitAudit /\ site \in {GoodSite, BadSite} /\ InitLimiter /\ InitNoPage

NextBurst ==
    \/ ParseBody
    \/ ValidateUrl
    \/ FetchPage
    \/ RunCheck
    \/ AwaitCheck
    \/ CombineAndScore
    \/ Respond
    \/ Resend

SpecBurst == InitBurst /\ [][NextBurst]_vars

----------------------------------------------------------------------------
(* The results page in the browser *)

\* The page on its own, while no audit runs and the limiter is idle.
InitBrowser == InitAudit /\ site = GoodSite /\ InitLimiter /\ InitPage

SpecPage == InitBrowser /\ [][NextPage]_vars

\* The page while the browser goes on: React runs the pending effect, every
\* fetch and every response.json() settles, and the continuation of
\* fetchResults runs when it does.
SpecPageFair ==
    /\ InitBrowser
    /\ [][NextPage]_vars
    /\ WF_vars(RunEffect)
    /\ WF_vars(FetchSettle)
    /\ WF_vars(JsonSettle)

----------------------------------------------------------------------------
(* Properties of the audit handler *)

\* The number of times an issue string occurs in an array.
Occurrences(array, issue) == Cardinality({i \in 1..Len(array) : array[i] = issue})

\* C1: every issue of the audit is counted in exactly one bucket, so the bucket
\* counts add up to the number of issues (critical, major and minor are the
\* buckets POST reports).
BucketsPartitionIssues ==
    pc \in {"respond", "done"} /\ (pc = "done" => response.status = 200) =>
        /\ Len(issues.critical) + Len(issues.major) + Len(issues.minor) = Len(allIssues)
        /\ \A i \in 1..Len(allIssues) :
               Occurrences(issues.critical, allIssues[i])
                 + Occurrences(issues.major, allIssues[i])
                 + Occurrences(issues.minor, allIssues[i])
               = Occurrences(allIssues, allIssues[i])

\* A response whose three buckets are all filled, from a page with an issue that
\* matches a critical and a major needle, and an issue that occurs twice.
BucketsAllFilled ==
    /\ pc = "done" /\ response.status = 200
    /\ response.issues.critical # <<>>
    /\ response.issues.major # <<>>
    /\ response.issues.minor # <<>>
    /\ \E i \in 1..Len(allIssues) :
           /\ Includes(allIssues[i], "missing lang attribute")
           /\ Includes(allIssues[i], "missing")
    /\ \E i, j \in 1..Len(allIssues) : i # j /\ allIssues[i] = allIssues[j]

\* Math.round of the non-negative fraction num / den.
Round(num, den) == (2 * num + den) \div (2 * den)

\* The weighted percentage of passed and warning checks, in the unit of overallScore.
WeightedScore(passedChecks, warningChecks, errorChecks) ==
    ScoreUnit * Round(passedChecks * 100 + warningChecks * 50,
                      passedChecks + warningChecks + errorChecks)

ScoreIsIntegerPercentage ==
    pc = "done" /\ response.status = 200 =>
        /\ response.overallScore % ScoreUnit = 0
        /\ response.overallScore \in 0..(100 * ScoreUnit)

\* C4: once the page has been fetched the audit completes; an analysis function
\* that throws does not abort it.
AuditFailsOnlyWhenFetchFails ==
    pc = "done" /\ html # NoHtml => response.status = 200

\* C5: an audit without issues is scored with the fallback score 0.
NoIssuesScoresZero ==
    pc = "done" /\ response.status = 200 /\ Len(allIssues) = 0 =>
        response.overallScore = 0

\* C6: every analysis function that contributes to the audit emits an issue;
\* none of them is silent.
EveryCheckEmitsAnIssue ==
    \A c \in ran : (\E i \in 1..Len(MergeOrder) : MergeOrder[i] = c) => out[c] # <<>>

\* The response without its timestamp.
WithoutTimestamp(r) == [r EXCEPT !.timestamp = 0]

DeclaredAt ==
    [ headings |-> 58, content |-> 116, url |-> 179, images |-> 250, social |-> 339,
      schema |-> 401, internalLinks |-> 481, externalLinks |-> 599, mobile |-> 688,
      https |-> 793, performance |-> 816, keywords |-> 926, canonical |-> 1049,
      hreflang |-> 1108, robotsTxt |-> 1165, sitemap |-> 1252, readability |-> 1326,
      brokenLinks |-> 1425, language |-> 1508, structuredData |-> 1642 ]

\* `all` is the issues of the functions `cs`, those of the function declared
\* first in front and the rest after them in the same manner.
RECURSIVE InDeclarationOrder(_, _)
InDeclarationOrder(all, cs) ==
    IF cs = {} THEN all = <<>>
    ELSE LET c == CHOOSE x \in cs : \A y \in cs : DeclaredAt[x] <= DeclaredAt[y]
             n == Len(out[c])
         IN  /\ Len(all) >= n
             /\ SubSeq(all, 1, n) = out[c]
             /\ InDeclarationOrder(SubSeq(all, n + 1, Len(all)), cs \ {c})

\* C8: the merged issue list holds the issues of the analysis functions in the
\* order of their declaration, whatever the order in which they completed.
IssuesInDeclarationOrder ==
    pc = "respond" => InDeclarationOrder(allIssues, DOMAIN DeclaredAt)

\* A merged list with issues of functions that completed out of declaration order.
MergedOutOfCompletionOrder ==
    /\ pc = "respond"
    /\ out["readability"] # <<>> /\ out["language"] # <<>>
    /\ out["robotsTxt"] # <<>> /\ out["sitemap"] # <<>>
    /\ out["brokenLinks"] # <<>> /\ out["structuredData"] # <<>>

\* C9: the analysis functions leave the page snapshot as it was fetched, so the
\* issues of each are those it finds on the fetched page, whichever ran before.
SnapshotUnchangedByChecks ==
    pc \in {"analyse", "combine", "respond"} =>
        /\ html = PageOf(site)
        /\ url = request.url
        /\ \A c \in ran : out[c] = IssuesOf(c, PageOf(site), request.url, site)

\* All analysis functions have run on a page without lang attribute.
AllChecksRan ==
    /\ pc = "combine"
    /\ ran = Checks
    /\ html.language.htmlLang = ""
    /\ out["language"] # <<>>

----------------------------------------------------------------------------
(* Properties of the rate limiter *)

\* The resolved calls of a token whose timestamps lie in the window of length
\* Interval that ends at time `at`.
ResolvedInWindow(token, at) ==
    Cardinality({j \in 1..Len(admitted[token]) :
                    /\ admitted[token][j] <= at
                    /\ at - admitted[token][j] < Interval})

\* C10: for each token at most Limit calls with timestamps in one window of
\* length Interval are resolved, and a call of a token that has Limit resolved
\* calls in the window is rejected with statusCode 429.
AtMostLimitPerWindow ==
    /\ \A token \in Tokens : \A i \in 1..Len(admitted[token]) :
           ResolvedInWindow(token, admitted[token][i]) <= Limit
    /\ lastCheck.outcome # "none" =>
           LET before == ResolvedInWindow(lastCheck.token, lastCheck.at)
                           - (IF lastCheck.outcome = "resolved" THEN 1 ELSE 0)
           IN  before >= Limit =>
                   lastCheck.outcome = "rejected" /\ lastCheck.statusCode = 429

\* A token is rejected for its limit after the window has moved past its first
\* resolved call.
RejectedInMovedWindow ==
    /\ lastCheck.outcome = "rejected"
    /\ lastCheck.statusCode = 429
    /\ lastCheck.retryAfter # {}
    /\ lastCheck.at = now
    /\ Len(admitted[lastCheck.token]) > Limit
    /\ ResolvedInWindow(lastCheck.token, now) = Limit

----------------------------------------------------------------------------
(* Properties of the audit endpoint, continued *)

\* C11: the requests of one client beyond the fifth within a minute are
\* answered with status 429, and no audit is run for them.
RequestsBeyondFifthRejected ==
    run > RequestsPerMinute /\ now < 60000 =>
        /\ html = NoHtml
        /\ ran = {}
        /\ pc = "done" => response.status = 429

\* The request carries no url: its body is no JSON object, or the object has no
\* (or an empty) url property.
UrlMissing == ~request.json \/ request.url.kind = "missing"

\* The url of the request does not parse as a URL.
UrlUnparseable == request.json /\ request.url.kind = "invalid"

\* C12: a request whose url is missing or unparseable is answered with status
\* 400 before the page is fetched or an analysis function runs, and status 500
\* is returned only for failures after the validation has passed.
InvalidUrlAnswered400 ==
    pc = "done" =>
        /\ UrlMissing \/ UrlUnparseable =>
               response.status = 400 /\ html = NoHtml /\ ran = {}
        /\ response.status = 500 => ~UrlMissing /\ ~UrlUnparseable

\* The weighted score of the issues of one analysis function, the severity of an
\* issue being the bucket the response puts it in.
CategoryWeightedScore(categoryIssues) ==
    LET IsGood(issue) == ArrayIncludes(response.issues.minor, issue)
        IsWarning(issue) == ArrayIncludes(response.issues.major, issue)
        IsError(issue) == ArrayIncludes(response.issues.critical, issue)
    IN  WeightedScore(Len(SelectSeq(categoryIssues, IsGood)),
                      Len(SelectSeq(categoryIssues, IsWarning)),
                      Len(SelectSeq(categoryIssues, IsError)))

\* C13: the audit reports for every category with issues a score computed with
\* the weighted formula over the issues of that category alone: 100 when all
\* of them are good, 0 when all of them are errors.
CategoryScoresWeighted ==
    pc = "done" /\ response.status = 200 =>
        \A c \in DOMAIN DeclaredAt :
            out[c] # <<>> =>
                \E i \in 1..Len(response.categoryScores) :
                    /\ response.categoryScores[i].name = c
                    /\ response.categoryScores[i].score = CategoryWeightedScore(out[c])

\* The links of the page that are requested: the first ten of those that are
\* not skipped.
ProbedLinks ==
    LET NotSkipped(a) == a.kind # "skipped"
        links == SelectSeq(html.anchors, NotSkipped)
    IN  SubSeq(links, 1, IF Len(links) < 10 THEN Len(links) ELSE 10)

\* The HEAD request of the link was aborted, timed out or failed otherwise.
ProbeFailed(link) == site.probe[link.href].failed

\* C14 as stated: the audit completes when the request of a link does not
\* resolve, and such a link is left out of the broken-link data.
FailedProbeOmitted ==
    /\ "brokenLinks" \in ran =>
           pc \in {"combine", "respond", "done"} /\ (pc = "done" => response.status = 200)
    /\ pc = "done" /\ response.status = 200 =>
           \A i \in 1..Len(ProbedLinks) :
               ProbeFailed(ProbedLinks[i]) => ~ArrayIncludes(response.broken, ProbedLinks[i])

\* C14 as amended: the audit completes when the request of a link does not
\* resolve, and such a link is reported in the broken-link data.
FailedProbeReportedBroken ==
    /\ "brokenLinks" \in ran =>
           pc \in {"combine", "respond", "done"} /\ (pc = "done" => response.status = 200)
    /\ pc = "done" /\ response.status = 200 =>
           \A i \in 1..Len(ProbedLinks) :
               ProbeFailed(ProbedLinks[i]) => ArrayIncludes(response.broken, ProbedLinks[i])

\* An audit has completed for a page with a link whose request failed, a link
\* that answered and a link that answered with an error status.
AuditDoneWithFailedProbe ==
    /\ pc = "done" /\ response.status = 200
    /\ \E i, j, k \in 1..Len(ProbedLinks) :
           /\ ProbeFailed(ProbedLinks[i])
           /\ ~ProbeFailed(ProbedLinks[j]) /\ site.probe[ProbedLinks[j].href].status = 200
           /\ ~ProbeFailed(ProbedLinks[k]) /\ site.probe[ProbedLinks[k].href].status >= 400

\* The links of the page in document order, without the skipped ones.
PageLinks ==
    LET NotSkipped(a) == a.kind # "skipped"
    IN  SelectSeq(html.anchors, NotSkipped)

\* The request of the link answered with a status of 400 or more, or failed.
ProbeBad(link) == ProbeFailed(link) \/ site.probe[link.href].status >= 400

\* The positions in PageLinks of the links that are to be reported as broken.
BadAmongFirstTen == {i \in 1..Len(PageLinks) : i <= 10 /\ ProbeBad(PageLinks[i])}

\* C15: at most 10 links are checked; the broken links reported are the checked
\* links whose request answered 400 or more or failed, and no others; and a
\* broken link puts a broken-links issue among the critical issues.
BrokenIffCheckedAndBad ==
    pc = "done" /\ response.status = 200 =>
        /\ Len(LinksToCheck(html)) <= 10
        /\ Len(response.broken) = Cardinality(BadAmongFirstTen)
        /\ \A j \in 1..Len(response.broken) :
               \E i \in BadAmongFirstTen : PageLinks[i] = response.broken[j]
        /\ \A i \in BadAmongFirstTen : ArrayIncludes(response.broken, PageLinks[i])
        /\ response.broken # <<>> =>
               ArrayIncludes(response.issues.critical,
                             Issue(" broken links found", ToString(Len(response.broken))))

\* An audit of a page with more than ten links, of which one among the first
\* ten and one after the tenth are broken.
BrokenLinkBeyondTenth ==
    /\ pc = "done" /\ response.status = 200
    /\ Len(PageLinks) > 10
    /\ \E i \in 11..Len(PageLinks) : ProbeBad(PageLinks[i])
    /\ response.broken # <<>>

----------------------------------------------------------------------------
(* Properties of the single analysis functions *)

\* title.length of the page titles of Sites.
TitleLength(title) ==
    CASE title = "" -> 0
      [] title = "Short" -> 5
      [] title = "A good page title" -> 17
      [] title = "A page title that runs on to a length of more than sixty characters" -> 67

\* The issues that classify the page title.
IsTitleIssue(issue) ==
    issue.text \in {"Missing page title", "Page title is too short", "Page title is too long",
                    "Good title length"}

\* C16: the issues of an audit hold exactly one issue that classifies the page
\* title: an error when the title is absent, a warning when its length is below
\* 10 or above 60, and a good issue when it is between 10 and 60.
TitleClassifiedOnce ==
    pc = "done" /\ response.status = 200 =>
        LET length == TitleLength(html.metaTags.title)
            titleIssues == SelectSeq(allIssues, IsTitleIssue)
        IN  /\ Len(titleIssues) = 1
            /\ IF length = 0 THEN ArrayIncludes(response.issues.critical, titleIssues[1])
               ELSE IF length < 10 \/ length > 60
               THEN ArrayIncludes(response.issues.major, titleIssues[1])
               ELSE ArrayIncludes(response.issues.minor, titleIssues[1])

\* The heading levels of the page in document order.
HeadingLevels == html.headings.levels

SingleH1 == Cardinality({i \in 1..Len(HeadingLevels) : HeadingLevels[i] = 1}) = 1

\* The hierarchy-skip issue of the headings check.
SkipIssue == Issue("Heading structure is not properly nested", "")

\* C17 as stated: with a single h1, no hierarchy-skip issue is emitted when the
\* parent level of every level in use occurs somewhere on the page.
NoSkipWhenParentLevelsPresent ==
    "headings" \in ran /\ SingleH1 =>
        ((\A i \in 1..Len(HeadingLevels) :
              HeadingLevels[i] > 1 =>
                  \E j \in 1..Len(HeadingLevels) : HeadingLevels[j] = HeadingLevels[i] - 1)
         => ~ArrayIncludes(out["headings"], SkipIssue))

\* C17 as amended: with a single h1, no hierarchy-skip issue is emitted when no
\* heading after the first is more than one level below the heading before it.
NoSkipWhenStepsAtMostOne ==
    "headings" \in ran /\ SingleH1 =>
        ((\A i \in 2..Len(HeadingLevels) : HeadingLevels[i] <= HeadingLevels[i - 1] + 1)
         => ~ArrayIncludes(out["headings"], SkipIssue))

\* The headings check has passed a page with a single h1 that does not open
\* with it and steps down by one level only.
StepsAtMostOneNotFromH1 ==
    /\ "headings" \in ran /\ SingleH1
    /\ Len(HeadingLevels) >= 3
    /\ HeadingLevels[1] > 2
    /\ \A i \in 2..Len(HeadingLevels) : HeadingLevels[i] <= HeadingLevels[i - 1] + 1
    /\ out["headings"] = <<>>

\* The issues that classify the number of h1 headings.
IsH1Issue(issue) ==
    issue.text \in {"No H1 heading found", "Multiple H1 headings found", "Single H1 heading found"}

\* C18: the issues of an audit hold exactly one issue that classifies the h1
\* count: an error without h1, a warning with more than one h1, and a good
\* issue with exactly one h1.
H1CountClassifiedOnce ==
    pc = "done" /\ response.status = 200 =>
        LET h1 == Cardinality({i \in 1..Len(HeadingLevels) : HeadingLevels[i] = 1})
            h1Issues == SelectSeq(allIssues, IsH1Issue)
        IN  /\ Len(h1Issues) = 1
            /\ h1 = 0 => ArrayIncludes(response.issues.critical, h1Issues[1])
            /\ h1 > 1 => ArrayIncludes(response.issues.major, h1Issues[1])
            /\ h1 = 1 => ArrayIncludes(response.issues.minor, h1Issues[1])

\* The images of the page that have no alt attribute.
ImagesWithoutAltAttribute == {i \in 1..Len(html.images) : ~html.images[i].altAttr}

IsMissingAltIssue(issue) == issue.text = " images missing alt text"

IsGoodAltIssue(issue) == issue.text = "All images have alt text"

\* C19: the audit holds one missing-alt error exactly when an image has no alt
\* attribute, the issue covers exactly the images without alt attribute (an
\* empty alt is not among them), and a good issue is emitted when every image
\* has its alt.
MissingAltReportedExactly ==
    pc = "done" /\ response.status = 200 =>
        LET altIssues == SelectSeq(allIssues, IsMissingAltIssue)
            goodIssues == SelectSeq(allIssues, IsGoodAltIssue)
        IN  IF ImagesWithoutAltAttribute # {}
            THEN /\ Len(altIssues) = 1
                 /\ altIssues[1].arg = ToString(Cardinality(ImagesWithoutAltAttribute))
                 /\ ArrayIncludes(response.issues.critical, altIssues[1])
                 /\ goodIssues = <<>>
            ELSE /\ altIssues = <<>>
                 /\ Len(goodIssues) = 1
                 /\ ArrayIncludes(response.issues.minor, goodIssues[1])

IsSslErrorIssue(issue) == issue.text = "Website is not using HTTPS"

IsSslGoodIssue(issue) == issue.text = "Website is using HTTPS"

\* C20: the audit of a page served without SSL holds exactly one SSL error and
\* no good SSL issue; the audit of a page served with SSL holds a good SSL
\* issue and no SSL error.
SslClassified ==
    pc = "done" /\ response.status = 200 =>
        LET sslErrors == SelectSeq(allIssues, IsSslErrorIssue)
            sslGood == SelectSeq(allIssues, IsSslGoodIssue)
        IN  IF url.protocol = "https:"
            THEN /\ sslErrors = <<>>
                 /\ Len(sslGood) >= 1
                 /\ ArrayIncludes(response.issues.minor, sslGood[1])
            ELSE /\ Len(sslErrors) = 1
                 /\ ArrayIncludes(response.issues.critical, sslErrors[1])
                 /\ sslGood = <<>>

\* The Open Graph fields of the page that are filled in.
OpenGraphPresent ==
    {f \in {"title", "description", "image"} : html.social.openGraph[f] # ""}

\* The issue that names a missing Open Graph field.
MissingOpenGraph(f) == Issue("Missing Open Graph " \o f, "")

\* C21: the Open Graph check reports 'no Open Graph tags' only when no Open
\* Graph tag is present, the missing fields and only those when some but not
\* all of title, description and image are present, and a good issue when all
\* three are present.
OpenGraphThreeTiers ==
    "social" \in ran =>
        LET noTags == ArrayIncludes(out["social"], Issue("Missing Open Graph tags", ""))
            complete == ArrayIncludes(out["social"], Issue("Open Graph tags are complete", ""))
            Listed(f) == ArrayIncludes(out["social"], MissingOpenGraph(f))
        IN  /\ noTags <=> OpenGraphPresent = {}
            /\ complete <=> OpenGraphPresent = {"title", "description", "image"}
            /\ \A f \in {"title", "description", "image"} :
                   Listed(f) <=> OpenGraphPresent # {} /\ f \notin OpenGraphPresent

\* Number of characters of each keyword of the pages.
TokenLength(word) ==
    CASE word = "audit"   -> 5
      [] word = "missing" -> 7
      [] word = "page"    -> 4
      [] word = "with"    -> 4
      [] word = "seo"     -> 3
      [] word = "c++"     -> 3

\* Words that carry no meaning of their own.
StopWords == {"the", "and", "with", "this", "that", "from"}

\* C22: keyword extraction returns at most 20 keywords in order of
\* non-increasing occurrence count, none of 3 characters or fewer and none a
\* stop word, each with density = count / totalTokens * 100.
KeywordsRankedByCount ==
    "keywords" \in ran =>
        LET ks == sortedKeywords(html)
        IN  /\ Len(ks) <= 20
            /\ \A i \in 1..(Len(ks) - 1) : ks[i].occurrences >= ks[i + 1].occurrences
            /\ \A i \in 1..Len(ks) :
                   /\ TokenLength(ks[i].keyword) > 3
                   /\ ks[i].keyword \notin StopWords
                   /\ LET d == KeywordDensity(ks[i], html)
                      IN  d.num * html.content.wordCount
                              = ks[i].occurrences * 100 * d.den

----------------------------------------------------------------------------
(* Properties of the rate limiter, continued *)

\* The timestamps the cache holds for a token.
Recorded(cache, token) == IF token \in DOMAIN cache THEN Range(cache[token]) ELSE {}

\* A step that records nothing: no token gains a timestamp and no token is
\* newly tracked.
NothingRecorded ==
    /\ DOMAIN tokenCache' \subseteq DOMAIN tokenCache
    /\ Range(activeTokens') \subseteq Range(activeTokens)
    /\ \A token \in Tokens :
           /\ Recorded(tokenCache', token) \subseteq Recorded(tokenCache, token)
           /\ token \in DOMAIN tokenCache' =>
                  Len(tokenCache'[token]) <= Len(tokenCache[token])

\* The call just made was rejected.
RejectedNow == lastCheck'.outcome = "rejected"

\* C23 as stated: a rejected call of check, whether rejected for the limit of
\* the token or for the cap on distinct tokens, adds no timestamp and tracks no
\* new token.
RejectedCheckRecordsNothing ==
    [][CallLimiter /\ RejectedNow => NothingRecorded]_vars

\* C23, amended: a call rejected for the limit of its token adds no timestamp
\* and tracks no new token; a call rejected for the cap on distinct tokens has
\* recorded its timestamp and tracks its token.
OnlyLimitRejectionRecordsNothing ==
    [][CallLimiter /\ RejectedNow =>
          IF lastCheck'.retryAfter # {}
          THEN NothingRecorded
          ELSE /\ now \in Recorded(tokenCache', lastCheck'.token)
               /\ lastCheck'.token \in Range(activeTokens')
               /\ Len(tokenCache'[lastCheck'.token])
                      = Len(FilterRecent(IF lastCheck'.token \in DOMAIN tokenCache
                                         THEN tokenCache[lastCheck'.token]
                                         ELSE <<>>, now)) + 1]_vars

\* A token has just been rejected for its limit while another token, never
\* admitted, is tracked since its rejection for the cap.
RejectedForBothReasons ==
    /\ lastCheck.outcome = "rejected"
    /\ lastCheck.retryAfter # {}
    /\ lastCheck.at = now
    /\ \E other \in Tokens \ {lastCheck.token} :
           /\ admitted[other] = <<>>
           /\ other \in DOMAIN tokenCache
           /\ other \in Range(activeTokens)

\* More distinct tokens are tracked than uniqueTokenPerInterval.
CapExceeded == Cardinality(DOMAIN tokenCache) > UniqueTokenPerInterval

\* The last call of the client was rejected for its limit, early enough for one
\* interval to pass before the clock stops.
CallerLockedOut ==
    /\ lastCheck.token = Caller
    /\ lastCheck.outcome = "rejected"
    /\ lastCheck.retryAfter # {}
    /\ lastCheck.at + Interval <= MaxTime

\* C24: a client rejected for its limit that keeps calling is admitted again,
\* unless the cap on distinct tokens is exceeded, and a call made one interval
\* or more after the oldest recorded request of the client is not rejected for
\* the limit.
RejectedTokenAdmittedAgain ==
    /\ CallerLockedOut ~>
           \/ lastCheck.token = Caller /\ lastCheck.outcome = "resolved"
           \/ CapExceeded
    /\ [][ /\ Check(Limit, Caller)
           /\ Caller \in DOMAIN tokenCache
           /\ now >= tokenCache[Caller][1] + Interval
           => \/ lastCheck'.outcome = "resolved"
              \/ CapExceeded' ]_vars

\* The client has used up its limit, and is admitted again one interval after
\* its first request while no other token is tracked.
AdmittedAfterLockout ==
    /\ lastCheck.token = Caller
    /\ lastCheck.outcome = "resolved"
    /\ lastCheck.at = now
    /\ Len(admitted[Caller]) = Limit + 1
    /\ admitted[Caller][Limit + 1] = now
    /\ now >= admitted[Caller][1] + Interval
    /\ now < admitted[Caller][1] + Interval + TickLength
    /\ DOMAIN tokenCache = {Caller}

\* What check(limit, token) decides at time `at` on a cache and its active tokens.
Decision(cache, active, at, token) ==
    LET cleaned == cleanup(cache, active, at)
        tokenTimestamps == IF token \in DOMAIN cleaned.tokenCache
                           THEN cleaned.tokenCache[token] ELSE <<>>
        newTimestamps == Append(FilterRecent(tokenTimestamps, at), at)
    IN  IF Len(newTimestamps) > Limit THEN "limit"
        ELSE IF Cardinality(DOMAIN MapSet(cleaned.tokenCache, token, newTimestamps))
                    > UniqueTokenPerInterval
             THEN "cap"
             ELSE "resolved"

\* The present time and the times the clock reaches later.
LaterTimes == {now + k * TickLength : k \in 0..(MaxTime \div TickLength + 1)}

\* C25: a run of the cleanup timer changes the decision of no later call of
\* check, and leaves as active tokens exactly the tokens of the cache, each
\* with at least one timestamp.
CleanupKeepsDecisions ==
    /\ [][Cleanup =>
             /\ \A at \in LaterTimes :
                    /\ cleanup(tokenCache', activeTokens', at)
                           = cleanup(tokenCache, activeTokens, at)
                    /\ \A token \in Tokens :
                           Decision(tokenCache', activeTokens', at, token)
                               = Decision(tokenCache, activeTokens, at, token)
             /\ Range(activeTokens') = DOMAIN tokenCache'
             /\ \A token \in DOMAIN tokenCache' : tokenCache'[token] # <<>>]_vars
    /\ [][CallLimiter =>
             LET decision == Decision(tokenCache, activeTokens, now, lastCheck'.token)
             IN  /\ lastCheck'.outcome = "resolved" <=> decision = "resolved"
                 /\ lastCheck'.retryAfter # {} <=> decision = "limit"]_vars

\* The timer has emptied the cache one interval after the client used up its
\* limit, with no call of check since.
TimerEmptiedCache ==
    /\ tokenCache = <<>>
    /\ activeTokens = <<>>
    /\ lastCheck.token = Caller
    /\ lastCheck.outcome = "rejected"
    /\ Len(admitted[Caller]) = Limit
    /\ lastCheck.at + Interval <= now

\* A call is admitted only while, the calling token counted, at most
\* uniqueTokenPerInterval tokens are tracked.
AdmittedWithinCap ==
    CallLimiter /\ lastCheck'.outcome = "resolved" =>
        /\ lastCheck'.token \in DOMAIN tokenCache'
        /\ Cardinality(DOMAIN tokenCache') <= UniqueTokenPerInterval

\* C26 as stated: a call is admitted only within the cap on distinct tokens,
\* and the limiter never tracks more than uniqueTokenPerInterval tokens.
TrackedTokensWithinCap ==
    /\ [][AdmittedWithinCap]_vars
    /\ [](Cardinality(DOMAIN tokenCache) <= UniqueTokenPerInterval)

\* C26, amended: a call is admitted only within the cap on distinct tokens,
\* and the number of tracked tokens goes beyond uniqueTokenPerInterval only by
\* a call that is rejected for the cap, which is tracked all the same.
TrackedBeyondCapOnlyByRejected ==
    /\ [][AdmittedWithinCap]_vars
    /\ [][ /\ Cardinality(DOMAIN tokenCache') > UniqueTokenPerInterval
           /\ Cardinality(DOMAIN tokenCache') > Cardinality(DOMAIN tokenCache)
           => /\ lastCheck'.outcome = "rejected"
              /\ lastCheck'.retryAfter = {}
              /\ lastCheck'.at = now
              /\ DOMAIN tokenCache' \ DOMAIN tokenCache = {lastCheck'.token} ]_vars

\* More tokens are tracked than the cap allows, the last of them by the call
\* that has just been rejected for the cap.
TrackedBeyondCap ==
    /\ CapExceeded
    /\ lastCheck.outcome = "rejected"
    /\ lastCheck.retryAfter = {}
    /\ lastCheck.at = now
    /\ lastCheck.token \in DOMAIN tokenCache
    /\ admitted[lastCheck.token] = <<>>
    /\ \E other \in Tokens : admitted[other] # <<>> /\ other \in DOMAIN tokenCache

\* The oldest timestamp of the token that is still in the window at time `at`,
\* which is `at` itself when there is none.
OldestInWindow(token, at) ==
    LET timestamps == FilterRecent(IF token \in DOMAIN tokenCache
                                   THEN tokenCache[token] ELSE <<>>, at)
    IN  IF timestamps = <<>> THEN at ELSE timestamps[1]

\* C27: the retryAfter of a call rejected for the limit of its token is a
\* whole number of seconds from 1 to ceil(interval / 1000), and retryAfter
\* seconds later the timestamp that was the oldest of the token has left the
\* window.
RetryAfterCoversOldest ==
    [][CallLimiter /\ lastCheck'.outcome = "rejected" /\ lastCheck'.statusCode = 429
           /\ Len(FilterRecent(IF lastCheck'.token \in DOMAIN tokenCache
                               THEN tokenCache[lastCheck'.token] ELSE <<>>, now)) >= Limit
       => /\ Cardinality(lastCheck'.retryAfter) = 1
          /\ \A retryAfter \in lastCheck'.retryAfter :
                 /\ retryAfter \in 1..CeilSeconds(Interval)
                 /\ FilterRecent(<<OldestInWindow(lastCheck'.token, now)>>,
                                 now + 1000 * retryAfter) = <<>>]_vars

\* A call was rejected for the limit while the oldest timestamp of its token
\* had less than one second left in the window.
RetryAfterOneSecond ==
    /\ lastCheck.outcome = "rejected"
    /\ lastCheck.retryAfter = {1}
    /\ lastCheck.at = now
    /\ OldestInWindow(lastCheck.token, now) < now
    /\ Interval - (now - OldestInWindow(lastCheck.token, now)) < 1000

----------------------------------------------------------------------------
(* Properties of the audit endpoint: the score as a function of the issues *)

\* C28: the overall score of an audit with n issues is 100 - 2.5 n when
\* n <= 28 and 30 when n >= 28; it is 100 without issues and never below 30.
\* Scores are in tenths.
ScoreFallsWithIssueCount ==
    pc \in {"respond", "done"} /\ (pc = "done" => response.status = 200) =>
        LET n == Len(allIssues)
        IN  /\ n <= 28 => overallScore = 100 * ScoreUnit - 25 * n
            /\ n >= 28 => overallScore = 30 * ScoreUnit
            /\ n = 0 => overallScore = 100 * ScoreUnit
            /\ overallScore >= 30 * ScoreUnit
            /\ pc = "done" => response.overallScore = overallScore

\* An audit with more than 28 issues has been answered.
AuditWithManyIssuesDone ==
    /\ pc = "done"
    /\ response.status = 200
    /\ Len(allIssues) > 28
    /\ response.overallScore = 30 * ScoreUnit

----------------------------------------------------------------------------
(* Properties of the results page *)

\* The audit of the url of the query string has succeeded: the latest call of
\* fetchResults, made for that url, has set its data.
CurrentAuditSucceeded ==
    /\ effectUrl = searchUrl
    /\ fetches # <<>>
    /\ fetches[Len(fetches)].url = searchUrl
    /\ fetches[Len(fetches)].outcome = "succeeded"

\* C29: once the effect of the present url has run, the results and the error
\* on the page are those of the url of the query string; no answer to the
\* request of an earlier url is on the page, and no error is shown once the
\* audit of the present url has succeeded.
ShownBelongsToCurrentUrl ==
    effectUrl = searchUrl =>
        /\ Shown = "results" => \A data \in results : data.url = searchUrl
        /\ Shown = "error" => \A e \in error : e.url = searchUrl
        /\ CurrentAuditSucceeded => Shown = "results"

\* A call of fetchResults has settled with the given outcome.
Settled(outcome) == \E i \in 1..Len(fetches) : fetches[i].outcome = outcome

\* C30: once the effect has run, loading becomes false; and when a request has
\* settled, or the effect found no url, loading is false and an error or a
\* result is set.
LoadingEndsWithErrorOrResult ==
    /\ (effectUrl # "unset") ~> ~loading
    /\ [](Settled("succeeded") \/ Settled("failed") \/ effectUrl = NoUrl =>
              ~loading /\ (error # {} \/ results # {}))
    /\ [][loading' => loading]_vars

\* The page after an answer with status 429: the message of the rate limit is
\* set, and the page is no longer loading.
RateLimitedShown ==
    /\ version = "get"
    /\ ~loading
    /\ Settled("failed")
    /\ \E e \in error : e.message = "Rate limit exceeded. Please try again in a minute."
    /\ Shown = "error"

====
